---- MODULE Spec2Model ----
(***************************************************************************)
(* Model of the authentication strategies of linear-mcp (src/src/auth.ts): *)
(* PatLinearAuth, OAuthLinearAuth and the legacy LinearAuth facade.        *)
(*                                                                         *)
(* A second specification, ClientSpec, models the createProjectWithIssues  *)
(* workflow of LinearGraphQLClient (src/src/graphql/client.ts).            *)
(*                                                                         *)
(* One strategy instance is modelled; its class is chosen in Init.  The    *)
(* two asynchronous operations (handleCallback, refreshAccessToken) are    *)
(* split at their only suspension point, the fetch of the token endpoint:  *)
(* the Start action is the synchronous prefix up to the fetch, the Finish  *)
(* action is everything that runs once the response is available.          *)
(* Several calls may be suspended at the same time; the model counts the    *)
(* suspended calls of each operation.                                      *)
(*                                                                         *)
(* Time is in milliseconds, as in the source (Date.now()).                 *)
(***************************************************************************)
EXTENDS Integers, FiniteSets, Sequences, TLC

VARIABLES
    cls,          \* class of the instance: PatLinearAuth, OAuthLinearAuth, LinearAuth
    sdkStrict,    \* TRUE: LinearClient constructor of @linear/sdk (rejects an empty
                  \* credential); FALSE: the jest mock of __tests__/setup.ts (accepts all)
    config,       \* this.config
    tokenData,    \* this.tokenData
    linearClient, \* this.linearClient
    authImpl,     \* LinearAuth.authImpl: the PatLinearAuth delegate, or NULL
    now,          \* Date.now()
    inflight,     \* per async operation: the number of calls suspended at their fetch
    last          \* the last thing the instance did: a call that returned or
                  \* threw, or a request that a call sent before it suspended

\* LinearGraphQLClient (src/src/graphql/client.ts): one invocation of
\* createProjectWithIssues at a time
VARIABLES
    pc,            \* where the invocation stands: "idle", "awaitProject", "awaitIssues",
                   \* "awaitSingle"
    args,          \* the arguments of the invocation: projectInput and issues, or
                   \* the method called (op) and its arguments
    calls,         \* the rawRequest calls made since the invocation began, in order
    projectResult, \* the local projectResult once the project step has resolved
    outcome,       \* NULL while the invocation runs, then what it returned or threw
    requests       \* how many times rawRequest has been called on the transport

clientVars == <<pc, args, calls, projectResult, outcome, requests>>

\* The tool handlers that HandlerFactory constructs over one LinearAuth and one
\* LinearGraphQLClient, with one tool call at a time
VARIABLES
    graphqlClient, \* the LinearGraphQLClient the handlers were constructed with, or NULL
    toolCall       \* the tool call being handled, or the last one handled

handlerVars == <<graphqlClient, toolCall>>

\* The LinearClient objects as objects: every `new LinearClient(...)` the
\* instance has evaluated, and the reference a caller took with getClient()
VARIABLES
    heap,          \* the LinearClient objects constructed so far, oldest first;
                   \* the instance's linearClient field refers to the newest
    held           \* the reference a caller keeps: an index into heap, or 0

snapshotVars == <<heap, held>>

\* A second instance, of PatLinearAuth or OAuthLinearAuth, that is given every
\* call the LinearAuth instance is given
VARIABLES
    twin           \* its class (cls) and its fields (state)

vars == <<cls, sdkStrict, config, tokenData, linearClient, authImpl, now, inflight, last,
          pc, args, calls, projectResult, outcome, requests, graphqlClient, toolCall,
          heap, held, twin>>

----------------------------------------------------------------------------
(* Bounds *)

\* the number of calls that may be suspended at their fetch at the same time
MaxInFlight == 2

----------------------------------------------------------------------------
(* Values *)

\* JavaScript undefined as a field value (string-typed fields)
Undefined == "<undefined>"
\* an absent object (this.config, this.tokenData, this.linearClient, this.authImpl)
NULL == [tag |-> "undefined"]
\* Number.NaN; every real instant in the model is different from it
NaN == 0 - 1

\* new LinearGraphQLClient(client): the instance keeps the LinearClient it was
\* constructed over
GraphQLClient(client) == [tag |-> "LinearGraphQLClient", linearClient |-> client]

\* a tool call: the tool, what its handler has done in order ("isAuthenticated",
\* "needsTokenRefresh", "refreshAccessToken", and "execute" for the request it
\* made through the client), where it stands ("none", "awaiting", "returned",
\* "rejected") and the error it threw
ToolCall(tool, steps, status, err) ==
    [tool |-> tool, steps |-> steps, status |-> status, err |-> err]

NoToolCall == ToolCall("none", <<>>, "none", "none")

\* JavaScript falsiness of a string-or-undefined value: !v
IsFalsy(v) == v \in {Undefined, ""}

\* Number.MAX_SAFE_INTEGER (2^53 - 1), capped to the checker's integer range;
\* every clock value of the model is far below it
MAX_SAFE_INTEGER == 2147483647

\* the refresh margin of needsTokenRefresh, in ms
REFRESH_MARGIN == 300000

\* the instants the clock takes
Times == {0, 3299000, 3300000}

ClassNames == {"PatLinearAuth", "OAuthLinearAuth", "LinearAuth"}

PatConfigs == {[type |-> "pat", accessToken |-> t] : t \in {"pat1", "", Undefined}}

OAuthConfig(c, s, r) == [type |-> "oauth", clientId |-> c, clientSecret |-> s, redirectUri |-> r]

\* the complete configuration, and the ones with one field empty or missing
OAuthConfigs ==
    {OAuthConfig("c", "s", "http://x/cb"), OAuthConfig("", "s", "http://x/cb"),
     OAuthConfig("c", Undefined, "http://x/cb"), OAuthConfig("c", "s", "")}

Configs == PatConfigs \cup OAuthConfigs

Codes == {"code1"}

\* what the token endpoint (or the transport) can answer to one request
FailedResponses ==
    {[kind |-> k] : k \in {"reject", "abort", "notOk", "badJson"}}

OkResponse(a, r, e) == [kind |-> "ok", access_token |-> a, refresh_token |-> r, expires_in |-> e]

\* well-formed payloads, and payloads that lack a field
OkResponses ==
    {OkResponse("a1", "r1", 3600), OkResponse("a2", "r2", 3600),
     OkResponse("a2", Undefined, 3600), OkResponse(Undefined, "r1", 3600),
     OkResponse("a1", "r1", NaN), OkResponse("a1", "r1", 300)}

Responses == FailedResponses \cup OkResponses

----------------------------------------------------------------------------
(* JavaScript arithmetic on numbers that may be NaN *)

Mul(a, b) == IF a = NaN \/ b = NaN THEN NaN ELSE a * b
Add(a, b) == IF a = NaN \/ b = NaN THEN NaN ELSE a + b
Sub(a, b) == IF a = NaN \/ b = NaN THEN NaN ELSE a - b
Geq(a, b) == a # NaN /\ b # NaN /\ a >= b

----------------------------------------------------------------------------
(* Strings that are serialized into a URL or a request body.  A string is a  *)
(* sequence of pieces: a piece is a run of characters that form-urlencoding   *)
(* leaves alone (letters, digits, * - . _) or one single other character.     *)

\* the pieces of a configuration or token value; String(undefined) is "undefined"
Pieces(v) ==
    IF v = Undefined THEN <<"undefined">>
    ELSE IF v = "" THEN <<>>
    ELSE IF v = "http://x/cb" THEN <<"http", ":", "/", "/", "x", "/", "cb">>
    ELSE <<v>>

\* obj.f in JavaScript: undefined when the object has no such property
Prop(obj, f) == IF f \in DOMAIN obj THEN obj[f] ELSE Undefined

\* application/x-www-form-urlencoded serialization of one piece
EncodePiece(p) ==
    CASE p = ":" -> "%3A"
      [] p = "/" -> "%2F"
      [] p = "," -> "%2C"
      [] p = "&" -> "%26"
      [] p = "=" -> "%3D"
      [] p = "?" -> "%3F"
      [] p = "%" -> "%25"
      [] p = "+" -> "%2B"
      [] p = " " -> "+"
      [] OTHER -> p

Encode(str) == [i \in 1..Len(str) |-> EncodePiece(str[i])]

\* new URLSearchParams(params).toString(), params a sequence of <<name, value>>
RECURSIVE ParamsToString(_)
ParamsToString(params) ==
    IF params = <<>> THEN <<>>
    ELSE Encode(Head(params)[1]) \o <<"=">> \o Encode(Head(params)[2])
            \o (IF Len(params) > 1 THEN <<"&">> ELSE <<>>)
            \o ParamsToString(Tail(params))

OAUTH_AUTH_URL == <<"https", ":", "/", "/", "linear.app", "/", "oauth">>
OAUTH_TOKEN_URL == <<"https", ":", "/", "/", "api.linear.app">>
SCOPE == <<"read", ",", "write", ",", "issues", ":", "create", ",", "offline_access">>

\* what generateState() can return: Math.random().toString(36).substring(2, 15)
\* is a run of digits and letters, empty when Math.random() returns 0
GeneratedStates == {<<"k3x9">>, <<"0q7z">>, <<>>}

----------------------------------------------------------------------------
(* The LinearClient constructor *)

Client(kind, token) == [tag |-> "LinearClient", cred |-> kind, token |-> token]

\* new LinearClient({apiKey}) / new LinearClient({accessToken}) throws iff the
\* SDK validates its options and the credential is falsy
CtorThrows(token) == sdkStrict /\ IsFalsy(token)

----------------------------------------------------------------------------
(* Instance state and call outcomes *)

\* the fields of a freshly constructed instance
FreshState == [config |-> NULL, tokenData |-> NULL, linearClient |-> NULL, authImpl |-> NULL]

\* the fields of the modelled instance
Self == [config |-> config, tokenData |-> tokenData, linearClient |-> linearClient,
         authImpl |-> authImpl]

TokenData(a, r, e) == [tag |-> "TokenData", accessToken |-> a, refreshToken |-> r, expiresAt |-> e]

\* a call that returns, and a call that throws error e, leaving the fields as s
Return(s) == [state |-> s, err |-> "none"]
Throw(s, e) == [state |-> s, err |-> e]

\* error kinds (err): "InvalidParams" and "InvalidRequest" are the McpError codes,
\* "ExchangeFailed" and "RefreshFailed" the McpError InternalError with message
\* "OAuth token exchange failed" / "Token refresh failed", "SdkError" the plain
\* Error of the LinearClient constructor, "none" a normal return

----------------------------------------------------------------------------
(* initialize *)

PatInitialize(s, cfg) ==
    IF cfg.type # "pat" THEN Throw(s, "InvalidParams")
    ELSE LET s1 == [s EXCEPT !.tokenData = TokenData(cfg.accessToken, "", MAX_SAFE_INTEGER)] IN
         IF CtorThrows(cfg.accessToken) THEN Throw(s1, "SdkError")
         ELSE Return([s1 EXCEPT !.linearClient = Client("apiKey", cfg.accessToken)])

\* OAuthInitialize without the check of redirectUri
OAuthInitializeNoRedirectCheck(s, cfg) ==
    IF cfg.type # "oauth" THEN Throw(s, "InvalidParams")
    ELSE IF IsFalsy(cfg.clientId) \/ IsFalsy(cfg.clientSecret)
         THEN Throw(s, "InvalidParams")
         ELSE Return([s EXCEPT !.config = cfg])

OAuthInitialize(s, cfg) ==
    IF cfg.type # "oauth" THEN Throw(s, "InvalidParams")
    ELSE IF IsFalsy(cfg.clientId) \/ IsFalsy(cfg.clientSecret) \/ IsFalsy(cfg.redirectUri)
         THEN Throw(s, "InvalidParams")
         ELSE Return([s EXCEPT !.config = cfg])

LegacyInitialize(s, cfg) ==
    LET s1 == [s EXCEPT !.config = cfg] IN
    IF cfg.type = "pat"
    THEN LET r == PatInitialize(FreshState, cfg) IN
         IF r.err # "none" THEN Throw(s1, r.err)
         ELSE Return([s1 EXCEPT !.authImpl = r.state,
                                !.linearClient = r.state.linearClient,
                                !.tokenData = TokenData(cfg.accessToken, "", MAX_SAFE_INTEGER)])
    ELSE IF IsFalsy(cfg.clientId) \/ IsFalsy(cfg.clientSecret) \/ IsFalsy(cfg.redirectUri)
         THEN Throw(s1, "InvalidParams")
         ELSE Return(s1)

InitializeOf(c, s, cfg) ==
    CASE c = "PatLinearAuth" -> PatInitialize(s, cfg)
      [] c = "OAuthLinearAuth" -> OAuthInitialize(s, cfg)
      [] c = "LinearAuth" -> LegacyInitialize(s, cfg)

----------------------------------------------------------------------------
(* getClient, isAuthenticated, needsTokenRefresh *)

\* PatLinearAuth.getClient / OAuthLinearAuth.getClient: the client, or NULL when it throws
PatGetClient(s) == s.linearClient
OAuthGetClient(s) == s.linearClient
LegacyGetClient(s) ==
    IF s.authImpl # NULL THEN PatGetClient(s.authImpl) ELSE s.linearClient

GetClientOf(c, s) ==
    CASE c = "PatLinearAuth" -> PatGetClient(s)
      [] c = "OAuthLinearAuth" -> OAuthGetClient(s)
      [] c = "LinearAuth" -> LegacyGetClient(s)

PatIsAuthenticated(s) == s.linearClient # NULL /\ s.tokenData # NULL
\* OAuthIsAuthenticated that tests the configuration instead of the token and
\* the client
OAuthIsAuthenticatedByConfig(s) == s.config # NULL
\* OAuthIsAuthenticated that tests the token alone
OAuthIsAuthenticatedByToken(s) == s.tokenData # NULL
OAuthIsAuthenticated(s) == s.linearClient # NULL /\ s.tokenData # NULL
LegacyIsAuthenticated(s) ==
    IF s.authImpl # NULL THEN PatIsAuthenticated(s.authImpl)
    ELSE s.linearClient # NULL /\ s.tokenData # NULL

IsAuthenticatedOf(c, s) ==
    CASE c = "PatLinearAuth" -> PatIsAuthenticated(s)
      [] c = "OAuthLinearAuth" -> OAuthIsAuthenticated(s)
      [] c = "LinearAuth" -> LegacyIsAuthenticated(s)

PatNeedsTokenRefresh(s, t) == FALSE

\* OAuthNeedsTokenRefresh with > in place of >=
OAuthNeedsTokenRefreshStrictlyAfter(s, t) ==
    IF s.tokenData = NULL THEN FALSE
    ELSE /\ Geq(t, Sub(s.tokenData.expiresAt, REFRESH_MARGIN))
         /\ t # Sub(s.tokenData.expiresAt, REFRESH_MARGIN)

OAuthNeedsTokenRefresh(s, t) ==
    IF s.tokenData = NULL THEN FALSE
    ELSE Geq(t, Sub(s.tokenData.expiresAt, REFRESH_MARGIN))

\* LegacyNeedsTokenRefresh without the delegation and without the test of the
\* configuration type
LegacyNeedsTokenRefreshNoDelegate(s, t) ==
    IF s.tokenData = NULL \/ s.config = NULL THEN FALSE
    ELSE Geq(t, Sub(s.tokenData.expiresAt, REFRESH_MARGIN))

LegacyNeedsTokenRefresh(s, t) ==
    IF s.authImpl # NULL THEN PatNeedsTokenRefresh(s.authImpl, t)
    ELSE IF s.tokenData = NULL \/ s.config = NULL \/ s.config.type = "pat" THEN FALSE
         ELSE Geq(t, Sub(s.tokenData.expiresAt, REFRESH_MARGIN))

NeedsTokenRefreshOf(c, s, t) ==
    CASE c = "PatLinearAuth" -> PatNeedsTokenRefresh(s, t)
      [] c = "OAuthLinearAuth" -> OAuthNeedsTokenRefresh(s, t)
      [] c = "LinearAuth" -> LegacyNeedsTokenRefresh(s, t)

\* the three queries on the modelled instance, now
getClient == GetClientOf(cls, Self)
isAuthenticated == IsAuthenticatedOf(cls, Self)
needsTokenRefresh == NeedsTokenRefreshOf(cls, Self, now)

----------------------------------------------------------------------------
(* setTokenData (OAuthLinearAuth and LinearAuth only) *)

OAuthSetTokenData(s, td) ==
    LET s1 == [s EXCEPT !.tokenData = td] IN
    IF CtorThrows(td.accessToken) THEN Throw(s1, "SdkError")
    ELSE Return([s1 EXCEPT !.linearClient = Client("apiKey", td.accessToken)])

LegacySetTokenData(s, td) ==
    LET s1 == [s EXCEPT !.tokenData = td] IN
    IF CtorThrows(td.accessToken) THEN Throw(s1, "SdkError")
    ELSE Return([s1 EXCEPT !.linearClient = Client("apiKey", td.accessToken)])

SetTokenDataOf(c, s, td) ==
    CASE c = "OAuthLinearAuth" -> OAuthSetTokenData(s, td)
      [] c = "LinearAuth" -> LegacySetTokenData(s, td)

\* the token data the callers of setTokenData pass at instant t
TokenDataInputs(t) ==
    {TokenData("a1", r, t + off) : r \in {"r1", ""}, off \in {0 - 1000, 3600000}}
        \cup {TokenData("", "r1", t + 3600000)}

----------------------------------------------------------------------------
(* getAuthorizationUrl (OAuthLinearAuth and LinearAuth only) *)

\* a string value returned by a call or sent as a request
Str(pieces) == [tag |-> "string", pieces |-> pieces]

\* the query parameters of the authorization URL, in the order of the source
AuthorizationParams(cfg, state) ==
    << <<(<<"client_id">>), Pieces(Prop(cfg, "clientId"))>>,
       <<(<<"redirect_uri">>), Pieces(Prop(cfg, "redirectUri"))>>,
       <<(<<"response_type">>), <<"code">> >>,
       <<(<<"scope">>), SCOPE>>,
       <<(<<"actor">>), <<"application">> >>,
       <<(<<"state">>), state>>,
       <<(<<"access_type">>), <<"offline">> >> >>

\* the URL built without URLSearchParams: the values are pasted in as they are
AuthorizationUrlUnencoded(cfg, state) ==
    LET params == AuthorizationParams(cfg, state)
        Paste[i \in 0..Len(params)] ==
            IF i = 0 THEN <<>>
            ELSE Paste[i - 1] \o (IF i > 1 THEN <<"&">> ELSE <<>>)
                    \o params[i][1] \o <<"=">> \o params[i][2]
    IN OAUTH_AUTH_URL \o <<"/", "authorize", "?">> \o Paste[Len(params)]

AuthorizationUrl(cfg, state) ==
    OAUTH_AUTH_URL \o <<"/", "authorize", "?">>
        \o ParamsToString(AuthorizationParams(cfg, state))

\* the result is [err, ret]: the error thrown, or "none" and the URL returned
OAuthGetAuthorizationUrl(s, state) ==
    IF s.config = NULL THEN [err |-> "InvalidRequest", ret |-> NULL]
    ELSE [err |-> "none", ret |-> Str(AuthorizationUrl(s.config, state))]

LegacyGetAuthorizationUrl(s, state) ==
    IF s.config = NULL \/ s.config.type # "oauth"
    THEN [err |-> "InvalidRequest", ret |-> NULL]
    ELSE [err |-> "none", ret |-> Str(AuthorizationUrl(s.config, state))]

GetAuthorizationUrlOf(c, s, state) ==
    CASE c = "OAuthLinearAuth" -> OAuthGetAuthorizationUrl(s, state)
      [] c = "LinearAuth" -> LegacyGetAuthorizationUrl(s, state)

----------------------------------------------------------------------------
(* handleCallback: the guard and the request, then the code after the fetch *)

\* the POST to the token endpoint with the given form parameters
TokenRequest(params) ==
    [tag |-> "request", method |-> "POST",
     url |-> OAUTH_TOKEN_URL \o <<"/", "oauth", "/", "token">>,
     body |-> ParamsToString(params)]

\* the request of handleCallback (the same code in both classes)
HandleCallbackRequest(s, code) ==
    TokenRequest(<< <<(<<"grant_type">>), <<"authorization_code">> >>,
                    <<(<<"client_id">>), Pieces(Prop(s.config, "clientId"))>>,
                    <<(<<"client_secret">>), Pieces(Prop(s.config, "clientSecret"))>>,
                    <<(<<"redirect_uri">>), Pieces(Prop(s.config, "redirectUri"))>>,
                    <<(<<"code">>), Pieces(code)>>,
                    <<(<<"access_type">>), <<"offline">> >> >>)

OAuthHandleCallbackGuard(s) == s.config # NULL
\* LegacyHandleCallbackGuard without the test of config.type
LegacyHandleCallbackGuardNoTypeCheck(s) == s.config # NULL
LegacyHandleCallbackGuard(s) == s.config # NULL /\ s.config.type = "oauth"

HandleCallbackGuardOf(c, s) ==
    CASE c = "OAuthLinearAuth" -> OAuthHandleCallbackGuard(s)
      [] c = "LinearAuth" -> LegacyHandleCallbackGuard(s)

\* OAuthHandleCallbackFinish that adds expires_in to the clock as it comes, in
\* seconds, without the factor 1000
OAuthHandleCallbackFinishSeconds(s, resp, t) ==
    IF resp.kind \in {"reject", "abort"} THEN Throw(s, "ExchangeFailed")
    ELSE IF resp.kind = "notOk" THEN Throw(s, "ExchangeFailed")
    ELSE IF resp.kind = "badJson" THEN Throw(s, "ExchangeFailed")
    ELSE LET s1 == [s EXCEPT !.tokenData =
                        TokenData(resp.access_token, resp.refresh_token,
                                  Add(t, resp.expires_in))] IN
         IF CtorThrows(s1.tokenData.accessToken) THEN Throw(s1, "ExchangeFailed")
         ELSE Return([s1 EXCEPT !.linearClient = Client("apiKey", s1.tokenData.accessToken)])

OAuthHandleCallbackFinish(s, resp, t) ==
    IF resp.kind \in {"reject", "abort"} THEN Throw(s, "ExchangeFailed")
    ELSE IF resp.kind = "notOk" THEN Throw(s, "ExchangeFailed")
    ELSE IF resp.kind = "badJson" THEN Throw(s, "ExchangeFailed")
    ELSE LET s1 == [s EXCEPT !.tokenData =
                        TokenData(resp.access_token, resp.refresh_token,
                                  Add(t, Mul(resp.expires_in, 1000)))] IN
         IF CtorThrows(s1.tokenData.accessToken) THEN Throw(s1, "ExchangeFailed")
         ELSE Return([s1 EXCEPT !.linearClient = Client("apiKey", s1.tokenData.accessToken)])

LegacyHandleCallbackFinish(s, resp, t) ==
    IF resp.kind \in {"reject", "abort"} THEN Throw(s, "ExchangeFailed")
    ELSE IF resp.kind = "notOk" THEN Throw(s, "ExchangeFailed")
    ELSE IF resp.kind = "badJson" THEN Throw(s, "ExchangeFailed")
    ELSE LET s1 == [s EXCEPT !.tokenData =
                        TokenData(resp.access_token, resp.refresh_token,
                                  Add(t, Mul(resp.expires_in, 1000)))] IN
         IF CtorThrows(s1.tokenData.accessToken) THEN Throw(s1, "ExchangeFailed")
         ELSE Return([s1 EXCEPT !.linearClient = Client("apiKey", s1.tokenData.accessToken)])

HandleCallbackFinishOf(c, s, resp, t) ==
    CASE c = "OAuthLinearAuth" -> OAuthHandleCallbackFinish(s, resp, t)
      [] c = "LinearAuth" -> LegacyHandleCallbackFinish(s, resp, t)

----------------------------------------------------------------------------
(* refreshAccessToken: the guard and the request, then the code after the fetch *)

\* the request of refreshAccessToken with the access token in the place of the
\* refresh token
RefreshRequestWithAccessToken(s) ==
    TokenRequest(<< <<(<<"grant_type">>), <<"refresh_token">> >>,
                    <<(<<"client_id">>), Pieces(Prop(s.config, "clientId"))>>,
                    <<(<<"client_secret">>), Pieces(Prop(s.config, "clientSecret"))>>,
                    <<(<<"refresh_token">>), Pieces(Prop(s.tokenData, "accessToken"))>> >>)

\* the request of refreshAccessToken (the same code in both classes)
RefreshRequest(s) ==
    TokenRequest(<< <<(<<"grant_type">>), <<"refresh_token">> >>,
                    <<(<<"client_id">>), Pieces(Prop(s.config, "clientId"))>>,
                    <<(<<"client_secret">>), Pieces(Prop(s.config, "clientSecret"))>>,
                    <<(<<"refresh_token">>), Pieces(Prop(s.tokenData, "refreshToken"))>> >>)

\* OAuthRefreshGuard without the test of tokenData.refreshToken
OAuthRefreshGuardNoTokenCheck(s) ==
    s.config # NULL /\ s.tokenData # NULL
OAuthRefreshGuard(s) ==
    s.config # NULL /\ s.tokenData # NULL /\ ~IsFalsy(s.tokenData.refreshToken)
LegacyRefreshGuard(s) ==
    s.config # NULL /\ s.config.type = "oauth"
        /\ s.tokenData # NULL /\ ~IsFalsy(s.tokenData.refreshToken)

RefreshGuardOf(c, s) ==
    CASE c = "OAuthLinearAuth" -> OAuthRefreshGuard(s)
      [] c = "LinearAuth" -> LegacyRefreshGuard(s)

\* OAuthRefreshFinish without the test of response.ok: the body of a non-2xx
\* answer is read as the token payload
OAuthRefreshFinishNoStatusCheck(s, resp, t) ==
    IF resp.kind \in {"reject", "abort"} THEN Throw(s, "RefreshFailed")
    ELSE IF resp.kind = "badJson" THEN Throw(s, "RefreshFailed")
    ELSE LET data == IF resp.kind = "notOk" THEN OkResponse(Undefined, Undefined, NaN) ELSE resp
             s1 == [s EXCEPT !.tokenData =
                        TokenData(data.access_token, data.refresh_token,
                                  Add(t, Mul(data.expires_in, 1000)))] IN
         IF CtorThrows(s1.tokenData.accessToken) THEN Throw(s1, "RefreshFailed")
         ELSE Return([s1 EXCEPT !.linearClient = Client("apiKey", s1.tokenData.accessToken)])

OAuthRefreshFinish(s, resp, t) ==
    IF resp.kind \in {"reject", "abort"} THEN Throw(s, "RefreshFailed")
    ELSE IF resp.kind = "notOk" THEN Throw(s, "RefreshFailed")
    ELSE IF resp.kind = "badJson" THEN Throw(s, "RefreshFailed")
    ELSE LET s1 == [s EXCEPT !.tokenData =
                        TokenData(resp.access_token, resp.refresh_token,
                                  Add(t, Mul(resp.expires_in, 1000)))] IN
         IF CtorThrows(s1.tokenData.accessToken) THEN Throw(s1, "RefreshFailed")
         ELSE Return([s1 EXCEPT !.linearClient = Client("apiKey", s1.tokenData.accessToken)])

LegacyRefreshFinish(s, resp, t) ==
    IF resp.kind \in {"reject", "abort"} THEN Throw(s, "RefreshFailed")
    ELSE IF resp.kind = "notOk" THEN Throw(s, "RefreshFailed")
    ELSE IF resp.kind = "badJson" THEN Throw(s, "RefreshFailed")
    ELSE LET s1 == [s EXCEPT !.tokenData =
                        TokenData(resp.access_token, resp.refresh_token,
                                  Add(t, Mul(resp.expires_in, 1000)))] IN
         IF CtorThrows(s1.tokenData.accessToken) THEN Throw(s1, "RefreshFailed")
         ELSE Return([s1 EXCEPT !.linearClient = Client("accessToken", s1.tokenData.accessToken)])

RefreshFinishOf(c, s, resp, t) ==
    CASE c = "OAuthLinearAuth" -> OAuthRefreshFinish(s, resp, t)
      [] c = "LinearAuth" -> LegacyRefreshFinish(s, resp, t)

----------------------------------------------------------------------------
(* The state machine *)

AsyncOps == {"handleCallback", "refreshAccessToken"}

\* the number of token requests awaiting their response
InFlight == inflight["handleCallback"] + inflight["refreshAccessToken"]

\* the record of an operation that returned or threw: its name, the kind of
\* response it received ("none" when it made no request) and its error
\* op: the operation; kind: "sent" when the operation has just sent its
\* request and is suspended, else the kind of answer it consumed ("none" for a
\* synchronous call); err: the error thrown or "none"; ret: the URL returned
\* or the request sent, else NULL
Event(op, kind, err, ret) == [op |-> op, kind |-> kind, err |-> err, ret |-> ret]
Done(op, kind, err) == Event(op, kind, err, NULL)

\* install the fields of s
Install(s) ==
    /\ config' = s.config
    /\ tokenData' = s.tokenData
    /\ linearClient' = s.linearClient
    /\ authImpl' = s.authImpl

Init ==
    /\ cls \in ClassNames
    /\ sdkStrict \in BOOLEAN
    /\ config = NULL
    /\ tokenData = NULL
    /\ linearClient = NULL
    /\ authImpl = NULL
    /\ now = 0
    /\ inflight = [op \in AsyncOps |-> 0]
    /\ last = Done("constructor", "none", "none")
    /\ pc = "idle"
    /\ args = NULL
    /\ calls = <<>>
    /\ projectResult = NULL
    /\ outcome = NULL
    /\ requests = 0
    /\ graphqlClient = NULL
    /\ toolCall = NoToolCall
    /\ heap = <<>>
    /\ held = 0
    /\ twin = NULL

Initialize(cfg) ==
    LET r == InitializeOf(cls, Self, cfg) IN
    /\ Install(r.state)
    /\ last' = Done("initialize", "none", r.err)
    /\ UNCHANGED <<cls, sdkStrict, now, inflight>>
    /\ UNCHANGED <<clientVars, handlerVars, snapshotVars, twin>>

SetTokenData(td) ==
    /\ cls \in {"OAuthLinearAuth", "LinearAuth"}
    /\ LET r == SetTokenDataOf(cls, Self, td) IN
        /\ Install(r.state)
        /\ last' = Done("setTokenData", "none", r.err)
    /\ UNCHANGED <<cls, sdkStrict, now, inflight>>
    /\ UNCHANGED <<clientVars, handlerVars, snapshotVars, twin>>

GetAuthorizationUrl(state) ==
    /\ cls \in {"OAuthLinearAuth", "LinearAuth"}
    /\ LET r == GetAuthorizationUrlOf(cls, Self, state) IN
        last' = Event("getAuthorizationUrl", "none", r.err, r.ret)
    /\ UNCHANGED <<cls, sdkStrict, config, tokenData, linearClient, authImpl, now, inflight>>
    /\ UNCHANGED <<clientVars, handlerVars, snapshotVars, twin>>

\* handleCallback(code) up to its fetch: throws, or issues the token request
HandleCallbackStart(code) ==
    /\ cls \in {"OAuthLinearAuth", "LinearAuth"}
    /\ IF HandleCallbackGuardOf(cls, Self)
       THEN /\ InFlight < MaxInFlight
            /\ inflight' = [inflight EXCEPT !["handleCallback"] = @ + 1]
            /\ last' = Event("handleCallback", "sent", "none",
                              HandleCallbackRequest(Self, code))
       ELSE /\ last' = Done("handleCallback", "none", "InvalidRequest")
            /\ UNCHANGED inflight
    /\ UNCHANGED <<cls, sdkStrict, config, tokenData, linearClient, authImpl, now>>
    /\ UNCHANGED <<clientVars, handlerVars, snapshotVars, twin>>

\* handleCallback from the arrival of the response to its return or throw
HandleCallbackFinish(resp) ==
    /\ inflight["handleCallback"] > 0
    /\ LET r == HandleCallbackFinishOf(cls, Self, resp, now) IN
        /\ Install(r.state)
        /\ last' = Done("handleCallback", resp.kind, r.err)
    /\ inflight' = [inflight EXCEPT !["handleCallback"] = @ - 1]
    /\ UNCHANGED <<cls, sdkStrict, now>>
    /\ UNCHANGED <<clientVars, handlerVars, snapshotVars, twin>>

\* refreshAccessToken() up to its fetch: throws, or issues the token request
RefreshStart ==
    /\ cls \in {"OAuthLinearAuth", "LinearAuth"}
    /\ IF RefreshGuardOf(cls, Self)
       THEN /\ InFlight < MaxInFlight
            /\ inflight' = [inflight EXCEPT !["refreshAccessToken"] = @ + 1]
            /\ last' = Event("refreshAccessToken", "sent", "none", RefreshRequest(Self))
       ELSE /\ last' = Done("refreshAccessToken", "none", "InvalidRequest")
            /\ UNCHANGED inflight
    /\ UNCHANGED <<cls, sdkStrict, config, tokenData, linearClient, authImpl, now>>
    /\ UNCHANGED <<clientVars, handlerVars, snapshotVars, twin>>

\* refreshAccessToken from the arrival of the response to its return or throw
RefreshFinish(resp) ==
    /\ inflight["refreshAccessToken"] > 0
    /\ LET r == RefreshFinishOf(cls, Self, resp, now) IN
        /\ Install(r.state)
        /\ last' = Done("refreshAccessToken", resp.kind, r.err)
    /\ inflight' = [inflight EXCEPT !["refreshAccessToken"] = @ - 1]
    /\ UNCHANGED <<cls, sdkStrict, now>>
    /\ UNCHANGED <<clientVars, handlerVars, snapshotVars, twin>>

\* time passes
Tick(t) ==
    /\ t > now
    /\ now' = t
    /\ UNCHANGED <<cls, sdkStrict, config, tokenData, linearClient, authImpl, inflight, last>>
    /\ UNCHANGED <<clientVars, handlerVars, snapshotVars, twin>>

Next ==
    \/ \E cfg \in Configs : Initialize(cfg)
    \/ \E td \in TokenDataInputs(now) : SetTokenData(td)
    \/ \E state \in GeneratedStates : GetAuthorizationUrl(state)
    \/ \E code \in Codes : HandleCallbackStart(code)
    \/ \E resp \in Responses : HandleCallbackFinish(resp)
    \/ RefreshStart
    \/ \E resp \in Responses : RefreshFinish(resp)
    \/ \E t \in Times : Tick(t)

Spec == Init /\ [][Next]_vars

----------------------------------------------------------------------------
(* LinearGraphQLClient: execute and createProjectWithIssues *)

\* the longest list of issues passed to createProjectWithIssues, and the longest
\* list of inputs or ids passed to a bulk operation
MaxIssues == 2

\* the number of rawRequest calls after which no further invocation is begun; a
\* createProjectWithIssues is begun only with room for its two calls
MaxRequests == 4

authVars == <<cls, sdkStrict, config, tokenData, linearClient, authImpl, now, inflight, last>>

ProjectInputs ==
    {[name |-> "New Project", teamIds |-> <<"team-1">>],
     [name |-> "Other Project", teamIds |-> <<"team-1", "team-2">>]}

\* an issue input without a project reference, and one that already has one
IssueInputs ==
    {[title |-> "Project Issue 1", teamId |-> "team-1"],
     [title |-> "Project Issue 2", teamId |-> "team-1", projectId |-> "project-0"]}

IssueLists == UNION {[1..n -> IssueInputs] : n \in 0..MaxIssues}

\* what rawRequest does: it resolves with {data}, rejects with an Error, or
\* rejects with a value that is not an Error
Resolve(data) == [kind |-> "resolve", data |-> data]
RejectError(message) == [kind |-> "reject", isError |-> TRUE, message |-> message]
RejectValue(value) == [kind |-> "reject", isError |-> FALSE, value |-> value]

Rejections == {RejectError("Network error"), RejectValue("boom")}

\* answers to CREATE_PROJECT: created, refused, created without a project
\* object, and an answer without data
ProjectResponses ==
    {Resolve([projectCreate |-> [success |-> TRUE, project |-> [id |-> id]]]) :
        id \in {"project-1", "project-2"}}
    \cup {Resolve([projectCreate |-> [success |-> FALSE, project |-> NULL]]),
          Resolve([projectCreate |-> [success |-> TRUE, project |-> NULL]]),
          Resolve(NULL)}
    \cup Rejections

\* answers to CREATE_BATCH_ISSUES
IssueResponses ==
    {Resolve([issueBatchCreate |-> [success |-> TRUE, issues |-> <<"issue-1">>]]),
     Resolve([issueBatchCreate |-> [success |-> FALSE, issues |-> <<>>]]),
     Resolve(NULL)}
    \cup Rejections

NoError == [tag |-> "none"]
Error(message) == [tag |-> "Error", message |-> message]
\* a property read on undefined or null
TypeError == [tag |-> "TypeError"]
\* a rejection value that is not an Error, rethrown as it is
Thrown(value) == [tag |-> "thrown", value |-> value]

Returned(value) == [tag |-> "outcome", err |-> NoError, value |-> value]
Failed(err) == [tag |-> "outcome", err |-> err, value |-> NULL]

\* the arguments of one rawRequest call; the document stands for its source body
RawRequest(document, variables) == [document |-> document, variables |-> variables]

\* execute once rawRequest has settled: response.data, or the error rethrown
Execute(resp) ==
    IF resp.kind = "resolve" THEN Returned(resp.data)
    ELSE IF resp.isError THEN Failed(Error("GraphQL operation failed: " \o resp.message))
    ELSE Failed(Thrown(resp.value))

\* createProject(input) and createBatchIssues(issues) up to their rawRequest
CreateProject(input) == RawRequest("CREATE_PROJECT", [input |-> input])
CreateBatchIssues(issues) == RawRequest("CREATE_BATCH_ISSUES", [input |-> [issues |-> issues]])

\* searchIssues' default for first
DEFAULT_FIRST == 50

\* the other methods up to their rawRequest
CreateIssue(input) == RawRequest("CREATE_ISSUES_MUTATION", [input |-> <<input>>])
CreateIssues(issues) == RawRequest("CREATE_ISSUES_MUTATION", [input |-> issues])
\* updateIssue sending the id by itself, not as a list of one
UpdateIssueById(id, input) == RawRequest("UPDATE_ISSUES_MUTATION", [id |-> id, input |-> input])
UpdateIssue(id, input) == RawRequest("UPDATE_ISSUES_MUTATION", [ids |-> <<id>>, input |-> input])
UpdateIssues(ids, input) == RawRequest("UPDATE_ISSUES_MUTATION", [ids |-> ids, input |-> input])
CreateIssueLabels(labels) == RawRequest("CREATE_ISSUE_LABELS", [labels |-> labels])
\* a holds the arguments the caller passed; first and orderBy have defaults
SearchIssues(a) ==
    RawRequest("SEARCH_ISSUES_QUERY",
               [filter |-> a.filter,
                first |-> IF "first" \in DOMAIN a THEN a.first ELSE DEFAULT_FIRST,
                after |-> Prop(a, "after"),
                orderBy |-> IF "orderBy" \in DOMAIN a THEN a.orderBy ELSE "updatedAt"])
GetTeams == RawRequest("GET_TEAMS_QUERY", NULL)
GetCurrentUser == RawRequest("GET_USER_QUERY", NULL)
GetProject(id) == RawRequest("GET_PROJECT_QUERY", [id |-> id])
SearchProjects(filter) == RawRequest("SEARCH_PROJECTS_QUERY", [filter |-> filter])
DeleteIssue(id) == RawRequest("DELETE_ISSUES_MUTATION", [ids |-> <<id>>])
DeleteIssues(ids) == RawRequest("DELETE_ISSUES_MUTATION", [ids |-> ids])

\* the methods that make one execute call, and the field of the answer each
\* one's document selects
PayloadField ==
    [createIssue |-> "issueCreate", createIssues |-> "issueCreate",
     createProject |-> "projectCreate", createBatchIssues |-> "issueBatchCreate",
     updateIssue |-> "issueUpdate", updateIssues |-> "issueUpdate",
     createIssueLabels |-> "issueLabelCreate", searchIssues |-> "issues",
     getTeams |-> "teams", getCurrentUser |-> "viewer", getProject |-> "project",
     searchProjects |-> "projects", deleteIssue |-> "issueDelete",
     deleteIssues |-> "issueDelete"]

Operations == DOMAIN PayloadField

Queries == {"searchIssues", "getTeams", "getCurrentUser", "getProject", "searchProjects"}

\* the method op called with the arguments a, up to its rawRequest
RequestOf(op, a) ==
    CASE op = "createIssue" -> CreateIssue(a.input)
      [] op = "createIssues" -> CreateIssues(a.issues)
      [] op = "createProject" -> CreateProject(a.input)
      [] op = "createBatchIssues" -> CreateBatchIssues(a.issues)
      [] op = "updateIssue" -> UpdateIssue(a.id, a.input)
      [] op = "updateIssues" -> UpdateIssues(a.ids, a.input)
      [] op = "createIssueLabels" -> CreateIssueLabels(a.labels)
      [] op = "searchIssues" -> SearchIssues(a)
      [] op = "getTeams" -> GetTeams
      [] op = "getCurrentUser" -> GetCurrentUser
      [] op = "getProject" -> GetProject(a.id)
      [] op = "searchProjects" -> SearchProjects(a.filter)
      [] op = "deleteIssue" -> DeleteIssue(a.id)
      [] op = "deleteIssues" -> DeleteIssues(a.ids)

IssueIds == {"issue-1", "issue-2"}
IdLists == UNION {[1..n -> IssueIds] : n \in 0..MaxIssues}
UpdateInputs == {[stateId |-> "state-2"]}
LabelLists == {<<[name |-> "bug", teamId |-> "team-1"]>>}
IssueFilters == {[query |-> "test"]}
ProjectFilters == {[name |-> [eq |-> "New Project"]]}
NoArguments == [none |-> TRUE]

\* the argument lists each method is called with
ArgumentsOf(op) ==
    CASE op = "createIssue" -> {[input |-> i] : i \in IssueInputs}
      [] op \in {"createIssues", "createBatchIssues"} -> {[issues |-> l] : l \in IssueLists}
      [] op = "createProject" -> {[input |-> i] : i \in ProjectInputs}
      [] op = "updateIssue" -> {[id |-> i, input |-> u] : i \in IssueIds, u \in UpdateInputs}
      [] op = "updateIssues" -> {[ids |-> l, input |-> u] : l \in IdLists, u \in UpdateInputs}
      [] op = "createIssueLabels" -> {[labels |-> l] : l \in LabelLists}
      [] op = "searchIssues" ->
            {[filter |-> f] : f \in IssueFilters}
            \cup {[filter |-> f, first |-> 10, after |-> "cursor-1", orderBy |-> "createdAt"] :
                    f \in IssueFilters}
      [] op \in {"getTeams", "getCurrentUser"} -> {NoArguments}
      [] op = "getProject" -> {[id |-> "project-1"]}
      [] op = "searchProjects" -> {[filter |-> f] : f \in ProjectFilters}
      [] op \in {"deleteIssue"} -> {[id |-> i] : i \in IssueIds}
      [] op = "deleteIssues" -> {[ids |-> l] : l \in IdLists}

\* a record with the one field f
Field(f, value) == [x \in {f} |-> value]

\* answers to the request of op: for a mutation a payload with success true or
\* false, for a query its nodes; an answer without data; a rejection
OperationResponses(op) ==
    (IF op \in Queries
        THEN {Resolve(Field(PayloadField[op], [nodes |-> <<>>]))}
        ELSE {Resolve(Field(PayloadField[op], [success |-> b])) : b \in BOOLEAN})
    \cup {Resolve(NULL)}
    \cup Rejections

\* {...issue, projectId: id}
WithProjectId(issue, id) ==
    [f \in DOMAIN issue \cup {"projectId"} |-> IF f = "projectId" THEN id ELSE issue[f]]

\* a step of createProjectWithIssues: the next position, the request it sends
\* (NULL for none), the projectResult it holds and its outcome (NULL: running)
Step(p, request, pr, out) == [pc |-> p, request |-> request, projectResult |-> pr, outcome |-> out]

\* createProjectWithIssues after the project step settled, without the test of
\* projectCreate.success
AfterCreateProjectNoSuccessCheck(a, resp) ==
    LET r == Execute(resp) IN
    IF r.err # NoError THEN Step("idle", NULL, NULL, r)
    ELSE IF r.value = NULL THEN Step("idle", NULL, NULL, Failed(TypeError))
    ELSE IF a.issues # <<>> /\ r.value.projectCreate.project = NULL
        THEN Step("idle", NULL, r.value, Failed(TypeError))
    ELSE Step("awaitIssues",
              CreateBatchIssues([i \in 1..Len(a.issues) |->
                  WithProjectId(a.issues[i], r.value.projectCreate.project.id)]),
              r.value, NULL)

\* createProjectWithIssues from the settling of createProject to the request of
\* createBatchIssues, or to its throw
AfterCreateProject(a, resp) ==
    LET r == Execute(resp) IN
    IF r.err # NoError THEN Step("idle", NULL, NULL, r)
    ELSE IF r.value = NULL THEN Step("idle", NULL, NULL, Failed(TypeError))
    ELSE IF ~r.value.projectCreate.success
        THEN Step("idle", NULL, r.value, Failed(Error("Failed to create project")))
    ELSE IF a.issues # <<>> /\ r.value.projectCreate.project = NULL
        THEN Step("idle", NULL, r.value, Failed(TypeError))
    ELSE Step("awaitIssues",
              CreateBatchIssues([i \in 1..Len(a.issues) |->
                  WithProjectId(a.issues[i], r.value.projectCreate.project.id)]),
              r.value, NULL)

\* createProjectWithIssues after the batch step settled, deleting the project
\* when the batch step failed
AfterCreateBatchIssuesWithRollback(pr, resp) ==
    LET r == Execute(resp)
        rollback == RawRequest("DELETE_PROJECT", [id |-> Prop(pr.projectCreate.project, "id")]) IN
    IF r.err # NoError THEN Step("idle", rollback, pr, r)
    ELSE IF r.value = NULL THEN Step("idle", rollback, pr, Failed(TypeError))
    ELSE IF ~r.value.issueBatchCreate.success
        THEN Step("idle", rollback, pr, Failed(Error("Failed to create issues")))
    ELSE Step("idle", NULL, pr,
              Returned([projectCreate |-> pr.projectCreate,
                        issueBatchCreate |-> r.value.issueBatchCreate]))

\* createProjectWithIssues after the batch step settled, returning the answer
\* of the batch step alone
AfterCreateBatchIssuesBatchOnly(pr, resp) ==
    LET r == Execute(resp) IN
    IF r.err # NoError THEN Step("idle", NULL, pr, r)
    ELSE IF r.value = NULL THEN Step("idle", NULL, pr, Failed(TypeError))
    ELSE IF ~r.value.issueBatchCreate.success
        THEN Step("idle", NULL, pr, Failed(Error("Failed to create issues")))
    ELSE Step("idle", NULL, pr, Returned(r.value))

\* createProjectWithIssues from the settling of createBatchIssues to its end
AfterCreateBatchIssues(pr, resp) ==
    LET r == Execute(resp) IN
    IF r.err # NoError THEN Step("idle", NULL, pr, r)
    ELSE IF r.value = NULL THEN Step("idle", NULL, pr, Failed(TypeError))
    ELSE IF ~r.value.issueBatchCreate.success
        THEN Step("idle", NULL, pr, Failed(Error("Failed to create issues")))
    ELSE Step("idle", NULL, pr,
              Returned([projectCreate |-> pr.projectCreate,
                        issueBatchCreate |-> r.value.issueBatchCreate]))

\* the strategy state of the client specification: a PatLinearAuth initialized
\* with a token, whose LinearClient the LinearGraphQLClient is constructed over
ClientInit ==
    /\ cls = "PatLinearAuth"
    /\ sdkStrict = FALSE
    /\ LET s == PatInitialize(FreshState, [type |-> "pat", accessToken |-> "pat1"]).state IN
        /\ config = s.config
        /\ tokenData = s.tokenData
        /\ linearClient = s.linearClient
        /\ authImpl = s.authImpl
    /\ now = 0
    /\ inflight = [op \in AsyncOps |-> 0]
    /\ last = Done("initialize", "none", "none")
    /\ pc = "idle"
    /\ args = NULL
    /\ calls = <<>>
    /\ projectResult = NULL
    /\ outcome = NULL
    /\ requests = 0
    /\ graphqlClient = GraphQLClient(linearClient)
    /\ toolCall = NoToolCall
    /\ heap = <<>>
    /\ held = 0
    /\ twin = NULL

\* createProjectWithIssues sending both requests at once, the issues without the
\* project id
CreateProjectWithIssuesConcurrent(projectInput, issues) ==
    /\ pc = "idle"
    /\ requests + 2 <= MaxRequests
    /\ pc' = "awaitProject"
    /\ args' = [projectInput |-> projectInput, issues |-> issues]
    /\ calls' = <<CreateProject(projectInput), CreateBatchIssues(issues)>>
    /\ requests' = requests + 2
    /\ projectResult' = NULL
    /\ outcome' = NULL
    /\ UNCHANGED <<authVars, handlerVars, snapshotVars, twin>>

\* createProjectWithIssues(projectInput, issues) up to the request of createProject
CreateProjectWithIssues(projectInput, issues) ==
    /\ pc = "idle"
    /\ requests + 2 <= MaxRequests
    /\ pc' = "awaitProject"
    /\ args' = [projectInput |-> projectInput, issues |-> issues]
    /\ calls' = <<CreateProject(projectInput)>>
    /\ requests' = requests + 1
    /\ projectResult' = NULL
    /\ outcome' = NULL
    /\ UNCHANGED <<authVars, handlerVars, snapshotVars, twin>>

\* install a step of the invocation
Take(step) ==
    /\ pc' = step.pc
    /\ calls' = IF step.request = NULL THEN calls ELSE Append(calls, step.request)
    /\ requests' = IF step.request = NULL THEN requests ELSE requests + 1
    /\ projectResult' = step.projectResult
    /\ outcome' = step.outcome
    /\ UNCHANGED args

\* the request of createProject settles, the project id being written into the
\* caller's issue inputs instead of into copies
CreateProjectSettledInPlace(resp) ==
    /\ pc = "awaitProject"
    /\ LET step == AfterCreateProject(args, resp) IN
        /\ pc' = step.pc
        /\ calls' = IF step.request = NULL THEN calls ELSE Append(calls, step.request)
        /\ requests' = IF step.request = NULL THEN requests ELSE requests + 1
        /\ projectResult' = step.projectResult
        /\ outcome' = step.outcome
        /\ args' = IF step.request = NULL THEN args
                   ELSE [args EXCEPT !.issues = step.request.variables.input.issues]
    /\ UNCHANGED <<authVars, handlerVars, snapshotVars, twin>>

\* the request of createProject settles
CreateProjectSettled(resp) ==
    /\ pc = "awaitProject"
    /\ Take(AfterCreateProject(args, resp))
    /\ UNCHANGED <<authVars, handlerVars, snapshotVars, twin>>

\* the request of createBatchIssues settles
CreateBatchIssuesSettled(resp) ==
    /\ pc = "awaitIssues"
    /\ Take(AfterCreateBatchIssues(projectResult, resp))
    /\ UNCHANGED <<authVars, handlerVars, snapshotVars, twin>>

\* the bulk methods making one request per item, every other method as it is
InvokeFanOut(op, a) ==
    LET each == CASE op = "createIssues" ->
                        [i \in 1..Len(a.issues) |-> CreateIssue(a.issues[i])]
                  [] op = "updateIssues" ->
                        [i \in 1..Len(a.ids) |-> UpdateIssue(a.ids[i], a.input)]
                  [] op = "deleteIssues" ->
                        [i \in 1..Len(a.ids) |-> DeleteIssue(a.ids[i])]
                  [] OTHER -> <<RequestOf(op, a)>> IN
    /\ pc = "idle"
    /\ requests + 1 <= MaxRequests
    /\ pc' = "awaitSingle"
    /\ args' = [op |-> op, arguments |-> a]
    /\ calls' = each
    /\ requests' = requests + Len(each)
    /\ projectResult' = NULL
    /\ outcome' = NULL
    /\ UNCHANGED <<authVars, handlerVars, snapshotVars, twin>>

\* a method serving the value of the previous invocation when that was the same
\* call and returned, without a request
InvokeCached(op, a) ==
    /\ pc = "idle"
    /\ requests + 1 <= MaxRequests
    /\ IF /\ outcome # NULL
          /\ outcome.err = NoError
          /\ "op" \in DOMAIN args
          /\ args.op = op
          /\ args.arguments = a
       THEN /\ pc' = "idle"
            /\ calls' = <<>>
            /\ UNCHANGED <<requests, outcome>>
       ELSE /\ pc' = "awaitSingle"
            /\ calls' = <<RequestOf(op, a)>>
            /\ requests' = requests + 1
            /\ outcome' = NULL
    /\ args' = [op |-> op, arguments |-> a]
    /\ projectResult' = NULL
    /\ UNCHANGED <<authVars, handlerVars, snapshotVars, twin>>

\* a method with one execute call, from its call to its rawRequest
Invoke(op, a) ==
    /\ pc = "idle"
    /\ requests + 1 <= MaxRequests
    /\ pc' = "awaitSingle"
    /\ args' = [op |-> op, arguments |-> a]
    /\ calls' = <<RequestOf(op, a)>>
    /\ requests' = requests + 1
    /\ projectResult' = NULL
    /\ outcome' = NULL
    /\ UNCHANGED <<authVars, handlerVars, snapshotVars, twin>>

\* the request of that method settles: the method returns what execute returns
\* and throws what execute throws
SingleSettled(resp) ==
    /\ pc = "awaitSingle"
    /\ resp \in OperationResponses(args.op)
    /\ pc' = "idle"
    /\ outcome' = Execute(resp)
    /\ UNCHANGED <<args, calls, requests, projectResult>>
    /\ UNCHANGED <<authVars, handlerVars, snapshotVars, twin>>

ClientNext ==
    \/ \E projectInput \in ProjectInputs, issues \in IssueLists :
            CreateProjectWithIssues(projectInput, issues)
    \/ \E resp \in ProjectResponses : CreateProjectSettled(resp)
    \/ \E resp \in IssueResponses : CreateBatchIssuesSettled(resp)
    \/ \E op \in Operations : \E a \in ArgumentsOf(op) : Invoke(op, a)
    \/ \E op \in Operations : \E resp \in OperationResponses(op) : SingleSettled(resp)

ClientSpec == ClientInit /\ [][ClientNext]_vars

----------------------------------------------------------------------------
(* HandlerFactory, BaseHandler and the feature handlers *)

\* handlerMap of getHandlerForTool
HandlerForTool ==
    [linear_auth |-> [handler |-> "authHandler", method |-> "handleAuth"],
     linear_auth_callback |-> [handler |-> "authHandler", method |-> "handleAuthCallback"],
     linear_create_issue |-> [handler |-> "issueHandler", method |-> "handleCreateIssue"],
     linear_create_issues |-> [handler |-> "issueHandler", method |-> "handleCreateIssues"],
     linear_bulk_update_issues |-> [handler |-> "issueHandler", method |-> "handleBulkUpdateIssues"],
     linear_search_issues |-> [handler |-> "issueHandler", method |-> "handleSearchIssues"],
     linear_delete_issue |-> [handler |-> "issueHandler", method |-> "handleDeleteIssue"],
     linear_delete_issues |-> [handler |-> "issueHandler", method |-> "handleDeleteIssues"],
     linear_get_issue |-> [handler |-> "issueHandler", method |-> "handleGetIssue"],
     linear_create_project_with_issues |->
         [handler |-> "projectHandler", method |-> "handleCreateProjectWithIssues"],
     linear_get_project |-> [handler |-> "projectHandler", method |-> "handleGetProject"],
     linear_search_projects |-> [handler |-> "projectHandler", method |-> "handleSearchProjects"],
     linear_get_project_milestones |->
         [handler |-> "projectHandler", method |-> "handleGetProjectMilestones"],
     linear_get_teams |-> [handler |-> "teamHandler", method |-> "handleGetTeams"],
     linear_get_user |-> [handler |-> "userHandler", method |-> "handleGetUser"],
     linear_get_comments |-> [handler |-> "commentHandler", method |-> "getComments"],
     linear_create_comment |-> [handler |-> "commentHandler", method |-> "createComment"],
     linear_update_comment |-> [handler |-> "commentHandler", method |-> "updateComment"],
     linear_delete_comment |-> [handler |-> "commentHandler", method |-> "deleteComment"]]

\* the tools whose handler makes a request through the LinearGraphQLClient
ClientTools ==
    {tool \in DOMAIN HandlerForTool : HandlerForTool[tool].handler # "authHandler"}

\* the outcome of the part of a handler that runs before its request: the steps
\* taken, the error thrown ("none": the request is made) and whether
\* refreshAccessToken was called
Before(steps, err, refresh) == [steps |-> steps, err |-> err, refresh |-> refresh]

\* BaseHandler.verifyAuth; the refreshAccessToken it calls is not awaited
VerifyAuth ==
    IF ~isAuthenticated \/ graphqlClient = NULL
    THEN Before(<<"isAuthenticated">>, "InvalidRequest", FALSE)
    ELSE IF needsTokenRefresh
    THEN Before(<<"isAuthenticated", "needsTokenRefresh", "refreshAccessToken">>, "none", TRUE)
    ELSE Before(<<"isAuthenticated", "needsTokenRefresh">>, "none", FALSE)

\* a method of a handler that extends BaseHandler, up to its call of the
\* client: verifyAuth, then the validation of its arguments (valid: they pass);
\* whatever is thrown is rethrown by handleError as an InternalError
BaseHandlerMethod(valid) ==
    LET v == VerifyAuth IN
    IF v.err # "none" THEN Before(v.steps, "InternalError", v.refresh)
    ELSE IF ~valid THEN Before(v.steps, "InternalError", v.refresh)
    ELSE Before(Append(v.steps, "execute"), "none", v.refresh)

\* a method of CommentHandler up to its call of this.client.execute; without
\* a client the call is a TypeError, caught and rethrown as an Error
CommentHandlerMethod ==
    IF graphqlClient = NULL THEN Before(<<>>, "Error", FALSE)
    ELSE Before(<<"execute">>, "none", FALSE)

HandlerMethod(tool, valid) ==
    IF HandlerForTool[tool].handler = "commentHandler" THEN CommentHandlerMethod
    ELSE BaseHandlerMethod(valid)

\* the states of the LinearAuth the handlers are constructed over: never
\* initialized, initialized for OAuth without a token, holding an OAuth token,
\* and initialized with a personal access token
HandlerAuthStates ==
    LET oauth == LegacyInitialize(FreshState, OAuthConfig("c", "s", "http://x/cb")).state IN
    {FreshState,
     oauth,
     LegacySetTokenData(oauth, TokenData("a1", "r1", 3600000)).state,
     LegacyInitialize(FreshState, [type |-> "pat", accessToken |-> "pat1"]).state}

\* the LinearClient a LinearGraphQLClient for the instance in state s is
\* constructed over: auth.getClient(), or one made apart from the instance
\* when it has none
ClientOf(s) ==
    IF LegacyGetClient(s) # NULL THEN LegacyGetClient(s) ELSE Client("apiKey", "k0")

\* HandlerFactory constructed over a LinearAuth and, optionally, a client
HandlerInit ==
    /\ cls = "LinearAuth"
    /\ sdkStrict = FALSE
    /\ \E s \in HandlerAuthStates :
        /\ config = s.config
        /\ tokenData = s.tokenData
        /\ linearClient = s.linearClient
        /\ authImpl = s.authImpl
        /\ graphqlClient \in {NULL, GraphQLClient(ClientOf(s))}
    /\ now = 0
    /\ inflight = [op \in AsyncOps |-> 0]
    /\ last = Done("constructor", "none", "none")
    /\ pc = "idle"
    /\ args = NULL
    /\ calls = <<>>
    /\ projectResult = NULL
    /\ outcome = NULL
    /\ requests = 0
    /\ toolCall = NoToolCall
    /\ heap = <<>>
    /\ held = 0
    /\ twin = NULL

\* the method getHandlerForTool(tool) names, called with the tool's arguments,
\* up to the await of its request or to its throw
CallTool(tool, valid) ==
    /\ toolCall.status # "awaiting"
    /\ LET b == HandlerMethod(tool, valid) IN
        /\ toolCall' = ToolCall(tool, b.steps,
                                IF b.err = "none" THEN "awaiting" ELSE "rejected", b.err)
        /\ IF b.refresh /\ RefreshGuardOf(cls, Self)
           THEN /\ InFlight < MaxInFlight
                /\ inflight' = [inflight EXCEPT !["refreshAccessToken"] = @ + 1]
                /\ last' = Event("refreshAccessToken", "sent", "none", RefreshRequest(Self))
           ELSE IF b.refresh
           THEN /\ last' = Done("refreshAccessToken", "none", "InvalidRequest")
                /\ UNCHANGED inflight
           ELSE UNCHANGED <<inflight, last>>
    /\ UNCHANGED <<cls, sdkStrict, config, tokenData, linearClient, authImpl, now>>
    /\ UNCHANGED <<clientVars, graphqlClient, snapshotVars, twin>>

\* the request of the handler settles: the handler returns its response, or
\* rethrows the failure
ToolSettled(ok) ==
    /\ toolCall.status = "awaiting"
    /\ toolCall' = [toolCall EXCEPT !.status = IF ok THEN "returned" ELSE "rejected",
                                    !.err = IF ok THEN "none" ELSE "InternalError"]
    /\ UNCHANGED <<authVars, clientVars, graphqlClient, snapshotVars, twin>>

HandlerNext ==
    \/ \E tool \in ClientTools, valid \in BOOLEAN : CallTool(tool, valid)
    \/ \E ok \in BOOLEAN : ToolSettled(ok)
    \/ \E resp \in Responses : RefreshFinish(resp)
    \/ \E t \in Times : Tick(t)

HandlerSpec == HandlerInit /\ [][HandlerNext]_vars

----------------------------------------------------------------------------
(* LinearClient objects and the references to them *)

\* how many LinearClient objects the instance constructs
MaxClients == 2

\* a mutation of the newest object in place, where the code constructs a new one
OverwriteLinearClient(objects, client) ==
    IF objects = <<>> THEN <<client>>
    ELSE [objects EXCEPT ![Len(objects)] = client]

\* `new LinearClient({...})`: a new object, which the field is then set to
NewLinearClient(objects, client) == Append(objects, client)

\* the objects after a call that left the instance in state r.state: the call
\* evaluated `new LinearClient` exactly when it ran to its end
Constructed(r) ==
    IF r.err = "none" THEN NewLinearClient(heap, r.state.linearClient) ELSE heap

\* an OAuth instance initialized with a complete configuration, no token yet
SnapshotInit ==
    /\ cls \in {"OAuthLinearAuth", "LinearAuth"}
    /\ sdkStrict \in BOOLEAN
    /\ LET s == InitializeOf(cls, FreshState, OAuthConfig("c", "s", "http://x/cb")).state IN
        /\ config = s.config
        /\ tokenData = s.tokenData
        /\ linearClient = s.linearClient
        /\ authImpl = s.authImpl
    /\ now = 0
    /\ inflight = [op \in AsyncOps |-> 0]
    /\ last = Done("initialize", "none", "none")
    /\ pc = "idle"
    /\ args = NULL
    /\ calls = <<>>
    /\ projectResult = NULL
    /\ outcome = NULL
    /\ requests = 0
    /\ graphqlClient = NULL
    /\ toolCall = NoToolCall
    /\ heap = <<>>
    /\ held = 0
    /\ twin = NULL

\* setTokenData(td), with the object it constructs
SetTokenDataNew(td) ==
    /\ Len(heap) < MaxClients
    /\ LET r == SetTokenDataOf(cls, Self, td) IN
        /\ Install(r.state)
        /\ last' = Done("setTokenData", "none", r.err)
        /\ heap' = Constructed(r)
    /\ UNCHANGED <<cls, sdkStrict, now, inflight, held>>
    /\ UNCHANGED <<clientVars, handlerVars, twin>>

\* handleCallback from the arrival of the response, with the object it constructs
HandleCallbackFinishNew(resp) ==
    /\ inflight["handleCallback"] > 0
    /\ Len(heap) < MaxClients
    /\ LET r == HandleCallbackFinishOf(cls, Self, resp, now) IN
        /\ Install(r.state)
        /\ last' = Done("handleCallback", resp.kind, r.err)
        /\ heap' = Constructed(r)
    /\ inflight' = [inflight EXCEPT !["handleCallback"] = @ - 1]
    /\ UNCHANGED <<cls, sdkStrict, now, held>>
    /\ UNCHANGED <<clientVars, handlerVars, twin>>

\* refreshAccessToken from the arrival of the response, with the object it
\* constructs
RefreshFinishNew(resp) ==
    /\ inflight["refreshAccessToken"] > 0
    /\ Len(heap) < MaxClients
    /\ LET r == RefreshFinishOf(cls, Self, resp, now) IN
        /\ Install(r.state)
        /\ last' = Done("refreshAccessToken", resp.kind, r.err)
        /\ heap' = Constructed(r)
    /\ inflight' = [inflight EXCEPT !["refreshAccessToken"] = @ - 1]
    /\ UNCHANGED <<cls, sdkStrict, now, held>>
    /\ UNCHANGED <<clientVars, handlerVars, twin>>

\* a caller calls getClient() and keeps what it returns
GetClient ==
    /\ last' = Done("getClient", "none",
                     IF getClient = NULL THEN "InvalidRequest" ELSE "none")
    /\ held' = IF getClient = NULL THEN held ELSE Len(heap)
    /\ UNCHANGED <<cls, sdkStrict, config, tokenData, linearClient, authImpl, now,
                   inflight, heap>>
    /\ UNCHANGED <<clientVars, handlerVars, twin>>

SnapshotNext ==
    \/ \E td \in TokenDataInputs(now) : SetTokenDataNew(td)
    \/ \E code \in Codes : HandleCallbackStart(code)
    \/ \E resp \in Responses : HandleCallbackFinishNew(resp)
    \/ RefreshStart
    \/ \E resp \in Responses : RefreshFinishNew(resp)
    \/ GetClient

SnapshotSpec == SnapshotInit /\ [][SnapshotNext]_vars

----------------------------------------------------------------------------
(* LinearAuth beside the class it stands in for *)

\* handleCallback(code) as one call: its guard, then the code after the fetch
\* on the answer resp
HandleCallbackOf(c, s, resp, t) ==
    IF HandleCallbackGuardOf(c, s) THEN HandleCallbackFinishOf(c, s, resp, t)
    ELSE Throw(s, "InvalidRequest")

\* refreshAccessToken() as one call
RefreshOf(c, s, resp, t) ==
    IF RefreshGuardOf(c, s) THEN RefreshFinishOf(c, s, resp, t)
    ELSE Throw(s, "InvalidRequest")

\* the configurations an instance of class c is meant for
ConfigsFor(c) == IF c = "PatLinearAuth" THEN PatConfigs ELSE OAuthConfigs

Twin(c, s) == [cls |-> c, state |-> s]

\* a new LinearAuth and a new instance of one of the two other classes
TwinInit ==
    /\ cls = "LinearAuth"
    /\ sdkStrict \in BOOLEAN
    /\ config = NULL
    /\ tokenData = NULL
    /\ linearClient = NULL
    /\ authImpl = NULL
    /\ now = 0
    /\ inflight = [op \in AsyncOps |-> 0]
    /\ last = Done("constructor", "none", "none")
    /\ pc = "idle"
    /\ args = NULL
    /\ calls = <<>>
    /\ projectResult = NULL
    /\ outcome = NULL
    /\ requests = 0
    /\ graphqlClient = NULL
    /\ toolCall = NoToolCall
    /\ heap = <<>>
    /\ held = 0
    /\ twin \in {Twin(c, FreshState) : c \in {"PatLinearAuth", "OAuthLinearAuth"}}

\* initialize(cfg) on both instances
InitializeBoth(cfg) ==
    /\ cfg \in ConfigsFor(twin.cls)
    /\ LET r == InitializeOf(cls, Self, cfg) IN
        /\ Install(r.state)
        /\ last' = Done("initialize", "none", r.err)
    /\ twin' = Twin(twin.cls, InitializeOf(twin.cls, twin.state, cfg).state)
    /\ UNCHANGED <<cls, sdkStrict, now, inflight>>
    /\ UNCHANGED <<clientVars, handlerVars, snapshotVars>>

\* setTokenData(td) on both instances
SetTokenDataBoth(td) ==
    /\ twin.cls = "OAuthLinearAuth"
    /\ LET r == SetTokenDataOf(cls, Self, td) IN
        /\ Install(r.state)
        /\ last' = Done("setTokenData", "none", r.err)
    /\ twin' = Twin(twin.cls, SetTokenDataOf(twin.cls, twin.state, td).state)
    /\ UNCHANGED <<cls, sdkStrict, now, inflight>>
    /\ UNCHANGED <<clientVars, handlerVars, snapshotVars>>

\* handleCallback(code) on both instances, the token endpoint giving both the
\* answer resp
HandleCallbackBoth(resp) ==
    /\ twin.cls = "OAuthLinearAuth"
    /\ LET r == HandleCallbackOf(cls, Self, resp, now) IN
        /\ Install(r.state)
        /\ last' = Done("handleCallback", resp.kind, r.err)
    /\ twin' = Twin(twin.cls, HandleCallbackOf(twin.cls, twin.state, resp, now).state)
    /\ UNCHANGED <<cls, sdkStrict, now, inflight>>
    /\ UNCHANGED <<clientVars, handlerVars, snapshotVars>>

\* refreshAccessToken() on both instances, with the same answer
RefreshBoth(resp) ==
    /\ twin.cls = "OAuthLinearAuth"
    /\ LET r == RefreshOf(cls, Self, resp, now) IN
        /\ Install(r.state)
        /\ last' = Done("refreshAccessToken", resp.kind, r.err)
    /\ twin' = Twin(twin.cls, RefreshOf(twin.cls, twin.state, resp, now).state)
    /\ UNCHANGED <<cls, sdkStrict, now, inflight>>
    /\ UNCHANGED <<clientVars, handlerVars, snapshotVars>>

TwinNext ==
    \/ \E cfg \in Configs : InitializeBoth(cfg)
    \/ \E td \in TokenDataInputs(now) : SetTokenDataBoth(td)
    \/ \E resp \in Responses : HandleCallbackBoth(resp)
    \/ \E resp \in Responses : RefreshBoth(resp)
    \/ \E t \in Times : Tick(t)

TwinSpec == TwinInit /\ [][TwinNext]_vars

----------------------------------------------------------------------------
(* Claims *)

\* C1: when callers invoke refreshAccessToken concurrently while needsTokenRefresh()
\* is true, at most one upstream refresh request is in flight; a second caller
\* waits for it instead of issuing its own.
C1_SingleFlightRefresh ==
    needsTokenRefresh => inflight["refreshAccessToken"] <= 1

\* the failures of a refresh that the claim names: upstream non-2xx, transport
\* failure, cancellation or timeout
ListedRefreshFailures == {r \in FailedResponses : r.kind \in {"notOk", "reject", "abort"}}

\* C2: a refreshAccessToken that fails by a non-2xx answer, a transport failure, a
\* cancellation or a timeout leaves tokenData (access token, refresh token, expiry)
\* and the client of getClient() as they were, keeps isAuthenticated() true if it
\* was true, and throws the refresh error.
C2_FailedRefreshKeepsTokenState ==
    [][\A resp \in ListedRefreshFailures :
          RefreshFinish(resp) =>
              /\ last'.err = "RefreshFailed"
              /\ tokenData' = tokenData
              /\ getClient' = getClient
              /\ (isAuthenticated => isAuthenticated')]_vars

C2_Witness ==
    /\ last.op = "refreshAccessToken" /\ last.kind = "notOk" /\ last.err = "RefreshFailed"
    /\ isAuthenticated /\ getClient # NULL

\* C3: a handleCallback that fails for any reason (transport failure, non-success
\* status, malformed payload) leaves the tokenData held before it untouched, and
\* isAuthenticated() and getClient() give the same results as before the call.
C3_FailedExchangeKeepsTokenState ==
    [][\A resp \in Responses :
          (tokenData # NULL /\ HandleCallbackFinish(resp) /\ last'.err # "none") =>
              /\ tokenData' = tokenData
              /\ getClient' = getClient
              /\ isAuthenticated' = isAuthenticated]_vars

\* tokenData and the client of getClient() agree: both absent, or both present
\* with the client bound to tokenData.accessToken
ClientBoundToTokenData ==
    \/ tokenData = NULL /\ getClient = NULL
    \/ /\ tokenData # NULL
       /\ getClient # NULL
       /\ getClient.token = tokenData.accessToken

\* C4: handleCallback and refreshAccessToken replace tokenData and the client
\* together: whichever way they end, the client of getClient() is bound to
\* tokenData.accessToken afterwards if it was before.
C4_AtomicReplace ==
    [][\A resp \in Responses :
          (ClientBoundToTokenData /\ (HandleCallbackFinish(resp) \/ RefreshFinish(resp)))
              => ClientBoundToTokenData']_vars

\* C5: after a successful refreshAccessToken the stored refresh token is the one of
\* the response if the response carries one and the previously stored one
\* otherwise, so a refresh token is still present.
C5_RefreshTokenKept ==
    [][\A resp \in OkResponses :
          (ClientBoundToTokenData /\ RefreshFinish(resp) /\ last'.err = "none") =>
              /\ tokenData'.refreshToken =
                    IF IsFalsy(resp.refresh_token) THEN tokenData.refreshToken
                    ELSE resp.refresh_token
              /\ ~IsFalsy(tokenData'.refreshToken)]_vars

\* C6: on an initialised OAuthLinearAuth needsTokenRefresh() is true iff tokenData exists, now >=
\* expiresAt - 5 minutes, and a refresh token is present.
C6_NeedsRefreshIff ==
    (cls = "OAuthLinearAuth" /\ config # NULL) =>
        (needsTokenRefresh <=>
            /\ tokenData # NULL
            /\ Geq(now, Sub(tokenData.expiresAt, REFRESH_MARGIN))
            /\ ~IsFalsy(tokenData.refreshToken))

\* the instance runs the OAuth code of needsTokenRefresh on a tokenData that has a
\* refresh token and a numeric expiry
OAuthTokenWithRefresh ==
    /\ \/ cls = "OAuthLinearAuth"
       \/ cls = "LinearAuth" /\ authImpl = NULL /\ config # NULL /\ config.type = "oauth"
    /\ tokenData # NULL
    /\ ~IsFalsy(tokenData.refreshToken)
    /\ tokenData.expiresAt # NaN

\* C7: with a refresh token present, needsTokenRefresh() is true for every tokenData
\* whose expiresAt is at or before now + 5 minutes and false for every tokenData
\* that expires later.
C7_RefreshMargin ==
    OAuthTokenWithRefresh =>
        /\ (tokenData.expiresAt <= now + REFRESH_MARGIN) => needsTokenRefresh
        /\ (tokenData.expiresAt > now + REFRESH_MARGIN) => ~needsTokenRefresh

C7_Witness ==
    /\ OAuthTokenWithRefresh
    /\ cls = "OAuthLinearAuth"
    /\ tokenData.expiresAt = now + REFRESH_MARGIN
    /\ needsTokenRefresh

\* the instance has been initialised with a static credential: PatLinearAuth holds
\* its client, LinearAuth holds its PatLinearAuth delegate
PatActive ==
    \/ cls = "PatLinearAuth" /\ linearClient # NULL
    \/ cls = "LinearAuth" /\ authImpl # NULL

ValidPatConfigs == {cfg \in PatConfigs : ~IsFalsy(cfg.accessToken)}

\* C8: initialize with a valid PAT credential returns with isAuthenticated() true,
\* and from then on needsTokenRefresh() is false in every state, whatever time
\* passes and whatever operations follow.
C8_PatNeverNeedsRefresh ==
    [][/\ \A cfg \in ValidPatConfigs :
              (/\ cls \in {"PatLinearAuth", "LinearAuth"}
               /\ last'.op = "initialize"
               /\ Initialize(cfg)) =>
                  (last'.err = "none" /\ isAuthenticated' /\ PatActive')
       /\ PatActive => (PatActive' /\ ~needsTokenRefresh /\ ~needsTokenRefresh')]_vars

C8_Witness ==
    /\ cls = "LinearAuth"
    /\ PatActive
    /\ last.op = "setTokenData"
    /\ now > 0
    /\ tokenData.expiresAt < now
    /\ ~needsTokenRefresh

\* an OAuth credential with clientId, clientSecret or redirectUri missing or empty
IncompleteOAuth(cfg) ==
    cfg.type = "oauth"
        /\ (IsFalsy(cfg.clientId) \/ IsFalsy(cfg.clientSecret) \/ IsFalsy(cfg.redirectUri))

\* a credential of the other variant passed to a variant-specific strategy
WrongVariant(c, cfg) ==
    \/ c = "PatLinearAuth" /\ cfg.type = "oauth"
    \/ c = "OAuthLinearAuth" /\ cfg.type = "pat"

\* C9: initialize with an OAuth credential that lacks clientId, clientSecret or
\* redirectUri, or with a credential of the wrong variant, throws InvalidParams
\* and creates no tokenData.
C9_BadConfigRejected ==
    [][\A cfg \in Configs :
          ((IncompleteOAuth(cfg) \/ WrongVariant(cls, cfg)) /\ Initialize(cfg)) =>
              (last'.err = "InvalidParams" /\ tokenData' = tokenData)]_vars

C9_Witness ==
    /\ cls = "OAuthLinearAuth"
    /\ last.op = "initialize"
    /\ last.err = "InvalidParams"
    /\ config = NULL
    /\ tokenData = NULL

\* C10: initialize with a static credential whose token is missing or empty throws
\* InvalidParams, and the strategy does not become authenticated.
C10_EmptyPatRejected ==
    [][\A cfg \in PatConfigs :
          (IsFalsy(cfg.accessToken) /\ cls \in {"PatLinearAuth", "LinearAuth"}
                /\ Initialize(cfg)) =>
              (last'.err = "InvalidParams" /\ (~isAuthenticated => ~isAuthenticated'))]_vars

\* C11: a successful initialize replaces the configuration and invalidates the
\* tokenData held before it: afterwards isAuthenticated(), needsTokenRefresh()
\* and getClient() answer as on a fresh instance initialized with the same
\* credential (with an OAuth credential: not authenticated until a code is
\* exchanged), also when a static credential is replaced by an OAuth one.
C11_InitializeReplaces ==
    [][\A cfg \in Configs :
          (Initialize(cfg) /\ last'.err = "none") =>
              LET fresh == InitializeOf(cls, FreshState, cfg).state IN
                /\ isAuthenticated' = IsAuthenticatedOf(cls, fresh)
                /\ needsTokenRefresh' = NeedsTokenRefreshOf(cls, fresh, now)
                /\ getClient' = GetClientOf(cls, fresh)]_vars

\* C12: in every reachable state isAuthenticated() is true exactly when tokenData
\* exists and its access token is non-empty.
C12_AuthenticatedIffToken ==
    isAuthenticated <=> (tokenData # NULL /\ ~IsFalsy(tokenData.accessToken))

\* C13: while no tokenData exists (a fresh strategy; an OAuth strategy from
\* initialize until the first successful handleCallback) isAuthenticated() is
\* false and getClient() throws the InvalidRequest error (no client to return).
C13_NoTokenStateNotAuthenticated ==
    tokenData = NULL => (~isAuthenticated /\ getClient = NULL)

C13_Witness ==
    /\ cls = "OAuthLinearAuth"
    /\ config # NULL
    /\ tokenData = NULL
    /\ last.op = "handleCallback"
    /\ last.err = "ExchangeFailed"
    /\ ~isAuthenticated
    /\ getClient = NULL

\* no refresh token is present: no tokenData, an empty or missing refresh token,
\* or a strategy configured with a static credential
NoRefreshToken ==
    \/ tokenData = NULL
    \/ IsFalsy(tokenData.refreshToken)
    \/ (config # NULL /\ config.type = "pat")

\* C14: refreshAccessToken called while no refresh token is present throws the
\* InvalidRequest error, which is not the 'Token refresh failed' error of an
\* upstream failure, sends no request to the token endpoint and changes no state.
C14_RefreshWithoutTokenRejected ==
    [][(NoRefreshToken /\ RefreshStart) =>
          /\ last'.op = "refreshAccessToken"
          /\ last'.err = "InvalidRequest"
          /\ last'.err # "RefreshFailed"
          /\ inflight' = inflight
          /\ UNCHANGED <<config, tokenData, linearClient, authImpl>>]_vars

C14_Witness ==
    /\ last.op = "refreshAccessToken"
    /\ last.err = "InvalidRequest"
    /\ config # NULL
    /\ config.type = "oauth"
    /\ tokenData # NULL
    /\ IsFalsy(tokenData.refreshToken)
    /\ InFlight = 0

\* C15: tokenData.expiresAt never decreases: every handleCallback and every
\* refreshAccessToken that ends, successfully or not, and every initialize leaves
\* an expiry at or after the one held before it (stated for expiries that are
\* numbers; an answer without expires_in stores NaN).
C15_ExpiryNeverDecreases ==
    [][((\E resp \in Responses : HandleCallbackFinish(resp) \/ RefreshFinish(resp))
            \/ (\E cfg \in Configs : Initialize(cfg)))
          => ((tokenData # NULL /\ tokenData' # NULL
                    /\ tokenData.expiresAt # NaN /\ tokenData'.expiresAt # NaN)
                => tokenData'.expiresAt >= tokenData.expiresAt)]_vars

\* a token answer with an access token, a refresh token and a lifetime longer
\* than the refresh margin
GoodExchange(resp) ==
    /\ resp.kind = "ok"
    /\ ~IsFalsy(resp.access_token)
    /\ ~IsFalsy(resp.refresh_token)
    /\ resp.expires_in # NaN
    /\ resp.expires_in * 1000 > REFRESH_MARGIN

\* C16: with a complete OAuth configuration, a handleCallback answered by a good
\* token answer returns with isAuthenticated() true and needsTokenRefresh()
\* false, and as time passes needsTokenRefresh() becomes true only once the clock
\* is within the margin of the stored expiry.
C16_ExchangeThenFresh ==
    [][/\ \A resp \in OkResponses :
            (config # NULL /\ config.type = "oauth" /\ ~IncompleteOAuth(config)
                /\ GoodExchange(resp) /\ HandleCallbackFinish(resp)) =>
                (last'.err = "none" /\ isAuthenticated' /\ ~needsTokenRefresh')
       /\ \A t \in Times :
            (last.op = "handleCallback" /\ last.err = "none" /\ ~needsTokenRefresh
                /\ Tick(t) /\ needsTokenRefresh') =>
                Geq(t, Sub(tokenData.expiresAt, REFRESH_MARGIN))]_vars

C16_Witness ==
    /\ cls = "OAuthLinearAuth"
    /\ last.op = "handleCallback"
    /\ last.err = "none"
    /\ now = 3299000
    /\ tokenData # NULL
    /\ tokenData.expiresAt = 3600000
    /\ isAuthenticated
    /\ ~needsTokenRefresh

----------------------------------------------------------------------------
(* Reading a serialized query string back, as the receiving server does *)

DecodePiece(p) ==
    CASE p = "%3A" -> ":"
      [] p = "%2F" -> "/"
      [] p = "%2C" -> ","
      [] p = "%26" -> "&"
      [] p = "%3D" -> "="
      [] p = "%3F" -> "?"
      [] p = "%25" -> "%"
      [] p = "%2B" -> "+"
      [] p = "+" -> " "
      [] OTHER -> p

Decode(str) == [i \in 1..Len(str) |-> DecodePiece(str[i])]

\* the index of the first piece equal to sep, or 0
FirstIndex(str, sep) ==
    LET I == {i \in 1..Len(str) : str[i] = sep} IN
    IF I = {} THEN 0 ELSE CHOOSE i \in I : \A j \in I : i <= j

\* the parts of str between the pieces equal to sep
RECURSIVE Split(_, _)
Split(str, sep) ==
    LET k == FirstIndex(str, sep) IN
    IF k = 0 THEN <<str>>
    ELSE <<SubSeq(str, 1, k - 1)>> \o Split(SubSeq(str, k + 1, Len(str)), sep)

\* the <<name, value>> pairs of a query string, decoded
ParseQuery(q) ==
    LET parts == Split(q, "&") IN
    [i \in 1..Len(parts) |->
        LET k == FirstIndex(parts[i], "=") IN
        IF k = 0 THEN <<Decode(parts[i]), <<>> >>
        ELSE <<Decode(SubSeq(parts[i], 1, k - 1)),
               Decode(SubSeq(parts[i], k + 1, Len(parts[i])))>>]

\* the value of the parameter called name, or NULL when there is none
ParamValue(pairs, name) ==
    LET I == {i \in 1..Len(pairs) : pairs[i][1] = <<name>>} IN
    IF I = {} THEN NULL ELSE Str(pairs[CHOOSE i \in I : \A j \in I : i <= j][2])

\* every piece of a query string is a separator, an escape or a run of
\* unreserved characters: no reserved character stands unescaped
WellEncoded(q) == \A i \in 1..Len(q) : q[i] \notin {":", "/", ",", "?", "%", " "}

\* str has the pieces of part in a row
Contains(str, part) ==
    \E i \in 0..(Len(str) - Len(part)) : SubSeq(str, i + 1, i + Len(part)) = part

\* the part of a URL after its first question mark
QueryOf(url) == SubSeq(url, FirstIndex(url, "?") + 1, Len(url))

NotState(pair) == pair[1] # <<"state">>

\* C17: getAuthorizationUrl on a strategy that holds an OAuth configuration
\* returns https://linear.app/oauth/authorize? followed by a well-encoded query
\* that carries the configuration's client_id and redirect_uri (URL-encoded),
\* response_type=code, the fixed scope, a state parameter and
\* access_type=offline; the parameters other than state depend on the
\* configuration only.
C17_AuthorizationUrl ==
    (last.op = "getAuthorizationUrl" /\ last.err = "none") =>
        \E url \in {last.ret.pieces} :
        \E q \in {QueryOf(url)} :
        \E pairs \in {ParseQuery(q)} :
        LET k == FirstIndex(url, "?")
        IN  /\ k > 0
            /\ SubSeq(url, 1, k - 1) =
                    <<"https", ":", "/", "/", "linear.app", "/", "oauth", "/", "authorize">>
            /\ WellEncoded(q)
            /\ ParamValue(pairs, "client_id") = Str(Pieces(config.clientId))
            /\ ParamValue(pairs, "redirect_uri") = Str(Pieces(config.redirectUri))
            /\ (config.redirectUri = "http://x/cb" =>
                    Contains(q, <<"redirect_uri", "=", "http", "%3A", "%2F", "%2F",
                                  "x", "%2F", "cb">>))
            /\ ParamValue(pairs, "response_type") = Str(<<"code">>)
            /\ ParamValue(pairs, "scope") =
                    Str(<<"read", ",", "write", ",", "issues", ":", "create", ",",
                          "offline_access">>)
            /\ ParamValue(pairs, "access_type") = Str(<<"offline">>)
            /\ ParamValue(pairs, "state") # NULL
            /\ \A state \in GeneratedStates :
                    SelectSeq(ParseQuery(QueryOf(
                        GetAuthorizationUrlOf(cls, Self, state).ret.pieces)), NotState)
                      = SelectSeq(pairs, NotState)

C17_Witness ==
    /\ cls = "OAuthLinearAuth"
    /\ last.op = "getAuthorizationUrl"
    /\ last.err = "none"
    /\ config.clientId = "c"
    /\ config.redirectUri = "http://x/cb"
    /\ ParamValue(ParseQuery(QueryOf(last.ret.pieces)), "state") = Str(<<"k3x9">>)

\* the strategy holds an OAuth configuration
HoldsOAuthConfig == config # NULL /\ config.type = "oauth"

\* ev is one POST to https://api.linear.app/oauth/token
IsTokenRequest(ev) ==
    /\ ev.kind = "sent"
    /\ ev.err = "none"
    /\ ev.ret.method = "POST"
    /\ ev.ret.url = <<"https", ":", "/", "/", "api.linear.app", "/", "oauth", "/", "token">>
    /\ WellEncoded(ev.ret.body)

\* the request just sent by handleCallback carries grant_type=authorization_code,
\* the client id, client secret and redirect URI of the configuration and a code
ExchangeRequestWellFormed ==
    (last.kind = "sent" /\ last.op = "handleCallback") =>
        /\ IsTokenRequest(last)
        /\ \E pairs \in {ParseQuery(last.ret.body)} :
            /\ ParamValue(pairs, "grant_type") = Str(<<"authorization_code">>)
            /\ ParamValue(pairs, "client_id") = Str(Pieces(config.clientId))
            /\ ParamValue(pairs, "client_secret") = Str(Pieces(config.clientSecret))
            /\ ParamValue(pairs, "redirect_uri") = Str(Pieces(config.redirectUri))
            /\ \E code \in Codes : ParamValue(pairs, "code") = Str(Pieces(code))

\* the request just sent by refreshAccessToken carries grant_type=refresh_token,
\* the client id and secret and the refresh token of tokenData, which the
\* sending step has not changed
RefreshRequestWellFormed ==
    (last.kind = "sent" /\ last.op = "refreshAccessToken") =>
        /\ IsTokenRequest(last)
        /\ \E pairs \in {ParseQuery(last.ret.body)} :
            /\ ParamValue(pairs, "grant_type") = Str(<<"refresh_token">>)
            /\ ParamValue(pairs, "client_id") = Str(Pieces(config.clientId))
            /\ ParamValue(pairs, "client_secret") = Str(Pieces(config.clientSecret))
            /\ ParamValue(pairs, "refresh_token") = Str(Pieces(tokenData.refreshToken))

\* C18: a handleCallback(code) that passes its guard sends exactly one request to
\* the token endpoint, with grant_type=authorization_code, the client id and
\* secret and the redirect URI of the configuration and the code; a
\* refreshAccessToken that passes its guard sends exactly one, with
\* grant_type=refresh_token, the client id and secret and the refresh token held
\* in tokenData when it is called; the rest of either call, whatever the answer,
\* sends nothing more.
C18_OneRequestPerCall ==
    /\ [](ExchangeRequestWellFormed /\ RefreshRequestWellFormed)
    /\ [][/\ \A code \in Codes :
              (HoldsOAuthConfig /\ HandleCallbackStart(code)) =>
                  /\ InFlight' = InFlight + 1
                  /\ last'.op = "handleCallback"
                  /\ last'.kind = "sent"
                  /\ UNCHANGED <<config, tokenData>>
         /\ (HoldsOAuthConfig /\ ~NoRefreshToken /\ RefreshStart) =>
                  /\ InFlight' = InFlight + 1
                  /\ last'.op = "refreshAccessToken"
                  /\ last'.kind = "sent"
                  /\ UNCHANGED <<config, tokenData>>
         /\ \A resp \in Responses :
              (resp.kind = last'.kind
                  /\ (HandleCallbackFinish(resp) \/ RefreshFinish(resp))) =>
                  (InFlight' = InFlight - 1 /\ last'.kind # "sent")]_vars

C18_Witness ==
    /\ last.op = "refreshAccessToken"
    /\ last.kind = "sent"
    /\ inflight["refreshAccessToken"] = 1
    /\ inflight["handleCallback"] = 0
    /\ tokenData.refreshToken = "r2"
    /\ ParamValue(ParseQuery(last.ret.body), "refresh_token") = Str(<<"r2">>)

\* C19: getAuthorizationUrl, handleCallback and refreshAccessToken called on a
\* strategy that holds no OAuth configuration (none yet, or a static credential)
\* throw the InvalidRequest error, send no request to the token endpoint and
\* leave isAuthenticated() as it was.
C19_OAuthOnlyOpsRejected ==
    [][(~HoldsOAuthConfig
            /\ \/ \E state \in GeneratedStates : GetAuthorizationUrl(state)
               \/ \E code \in Codes : HandleCallbackStart(code)
               \/ RefreshStart) =>
          /\ last'.err = "InvalidRequest"
          /\ last'.kind # "sent"
          /\ last'.ret = NULL
          /\ InFlight' = InFlight
          /\ isAuthenticated' = isAuthenticated]_vars

C19_Witness ==
    /\ cls = "LinearAuth"
    /\ config # NULL
    /\ config.type = "pat"
    /\ last.op = "handleCallback"
    /\ last.err = "InvalidRequest"
    /\ isAuthenticated
    /\ InFlight = 0

\* the project step fails: the request is rejected, or the answer says
\* success: false
ProjectStepFails(resp) ==
    \/ resp.kind = "reject"
    \/ (resp.data # NULL /\ ~resp.data.projectCreate.success)

\* C20: when the project step of createProjectWithIssues fails, by a rejected
\* request or by an answer with success: false, the invocation ends at once
\* with an error and createBatchIssues is never requested: the one call made is
\* CREATE_PROJECT.
C20_ProjectFailureStops ==
    [][\A resp \in ProjectResponses :
          (ProjectStepFails(resp) /\ CreateProjectSettled(resp)) =>
              /\ outcome' # NULL
              /\ outcome'.err # NoError
              /\ (resp.kind = "resolve" => outcome'.err = Error("Failed to create project"))
              /\ pc' = "idle"
              /\ calls' = <<RawRequest("CREATE_PROJECT", [input |-> args.projectInput])>>]_vars

C20_Witness ==
    /\ pc = "idle"
    /\ outcome # NULL
    /\ outcome.err = Error("Failed to create project")
    /\ Len(args.issues) = 2
    /\ Len(calls) = 1

\* the project step succeeds: the answer says success: true and has the project
\* that ProjectResponse declares
ProjectCreated(resp) ==
    /\ resp.kind = "resolve"
    /\ resp.data # NULL
    /\ resp.data.projectCreate.success
    /\ resp.data.projectCreate.project # NULL

\* the request is one CREATE_BATCH_ISSUES call carrying n issue inputs
IsBatchOf(request, n) ==
    /\ request.document = "CREATE_BATCH_ISSUES"
    /\ Len(request.variables.input.issues) = n

MergedKeeping(issue, id) ==
    [f \in DOMAIN issue \cup {"projectId"} |->
        IF f \in DOMAIN issue THEN issue[f] ELSE id]

\* C22: the batch call of createProjectWithIssues carries one input per issue
\* passed, in the same order, each with all the fields of that issue and with
\* the id of the created project under projectId, and a projectId an issue
\* already had is not replaced.
C22_MergeKeepsReference ==
    pc = "awaitIssues" =>
        /\ Len(calls[2].variables.input.issues) = Len(args.issues)
        /\ \A i \in 1..Len(args.issues) :
              calls[2].variables.input.issues[i] =
                  MergedKeeping(args.issues[i], projectResult.projectCreate.project.id)

\* the batch step fails: the request is rejected, or the answer says
\* success: false
BatchStepFails(resp) ==
    \/ resp.kind = "reject"
    \/ (resp.data # NULL /\ ~resp.data.issueBatchCreate.success)

\* what the caller of a failed invocation gets hold of: the thrown value, which
\* would name the failing step under step and carry the outputs of the
\* completed steps under completed
NamesStep(out, step) == "step" \in DOMAIN out.err /\ out.err.step = step
ExposesCompleted(out, results) ==
    "completed" \in DOMAIN out.err /\ out.err.completed = results

\* C23: when the project step of createProjectWithIssues succeeded and the
\* batch step fails, the invocation ends with an error that names the issue
\* step as the failing one and exposes the output of the project step, the id
\* of the created project included.
C23_PartialFailureExposesProject ==
    [][\A resp \in IssueResponses :
          (/\ BatchStepFails(resp)
           /\ CreateBatchIssuesSettled(resp)
           /\ projectResult.projectCreate.project # NULL) =>
              /\ outcome' # NULL
              /\ outcome'.err # NoError
              /\ NamesStep(outcome', "issueBatchCreate")
              /\ ExposesCompleted(outcome', [projectCreate |-> projectResult.projectCreate])]_vars

\* C24: when the batch step of createProjectWithIssues fails after the project
\* was created, the invocation ends with that failure and makes no further
\* call, in particular none that deletes the project: its calls are the two it
\* had made, CREATE_PROJECT and CREATE_BATCH_ISSUES.
C24_NoRollback ==
    [][\A resp \in IssueResponses :
          (BatchStepFails(resp) /\ CreateBatchIssuesSettled(resp)) =>
              /\ pc' = "idle"
              /\ outcome' # NULL
              /\ outcome'.err # NoError
              /\ calls' = calls
              /\ Len(calls') = 2
              /\ calls'[1].document = "CREATE_PROJECT"
              /\ calls'[2].document = "CREATE_BATCH_ISSUES"]_vars

C24_Witness ==
    /\ pc = "idle"
    /\ outcome # NULL
    /\ outcome.err = Error("Failed to create issues")
    /\ projectResult # NULL
    /\ projectResult.projectCreate.project # NULL
    /\ Len(args.issues) = 2
    /\ Len(calls) = 2

\* the batch step succeeds: the answer says success: true
BatchCreated(resp) ==
    /\ resp.kind = "resolve"
    /\ resp.data # NULL
    /\ resp.data.issueBatchCreate.success

BulkOperations == {"createIssues", "updateIssues", "deleteIssues"}

\* the list a bulk method was called with, and the list its request carries
ListPassed(a) ==
    IF a.op = "createIssues" THEN a.arguments.issues ELSE a.arguments.ids
ListCarried(request, op) ==
    IF op = "createIssues" THEN request.variables.input ELSE request.variables.ids

NamesOperation(out, op) == "operation" \in DOMAIN out.err /\ out.err.operation = op

\* C27: when the request of a method is rejected with an Error, the method
\* fails with an Error whose message wraps the message of the rejection and
\* which is tagged with the name of the method that failed.
C27_TransportFailureTagged ==
    [][\A op \in Operations : \A resp \in OperationResponses(op) :
          (/\ resp.kind = "reject"
           /\ resp.isError
           /\ pc = "awaitSingle"
           /\ args.op = op
           /\ SingleSettled(resp)) =>
              /\ outcome' # NULL
              /\ outcome'.err.tag = "Error"
              /\ outcome'.err.message = "GraphQL operation failed: " \o resp.message
              /\ NamesOperation(outcome', op)]_vars

\* the answer to the request of the mutation op says success: false
Refused(op, resp) ==
    /\ op \notin Queries
    /\ resp.kind = "resolve"
    /\ resp.data # NULL
    /\ ~resp.data[PayloadField[op]].success

\* C28: when the request of a method resolves with a payload that says
\* success: false, the method fails with an error that names the method and
\* carries the payload; it does not return the payload as its value.
C28_RefusedNeverReturned ==
    [][\A op \in Operations : \A resp \in OperationResponses(op) :
          (/\ Refused(op, resp)
           /\ pc = "awaitSingle"
           /\ args.op = op
           /\ SingleSettled(resp)) =>
              /\ outcome' # NULL
              /\ outcome'.err # NoError
              /\ NamesOperation(outcome', op)
              /\ Prop(outcome'.err, "payload") = resp.data]_vars

\* C29: every invocation of a method with one execute call makes exactly one
\* rawRequest call: a call of a method always leaves the client awaiting a
\* request, beginning it makes one request, also when the previous invocation
\* was the same call and returned a value, and when the request settles,
\* resolved or rejected, the invocation ends without another.
C29_OneRequestPerInvocation ==
    /\ [][pc = "idle" => pc' # "idle"]_vars
    /\ [][(pc = "idle" /\ pc' = "awaitSingle") =>
            /\ calls' = <<RequestOf(args'.op, args'.arguments)>>
            /\ requests' = requests + 1]_vars
    /\ [][pc = "awaitSingle" =>
            /\ pc' = "idle"
            /\ outcome' # NULL
            /\ calls' = calls
            /\ requests' = requests]_vars
    /\ []((pc = "idle" /\ outcome # NULL /\ "op" \in DOMAIN args) =>
            calls = <<RequestOf(args.op, args.arguments)>>)

\* the second invocation, a getTeams whose request was rejected, has ended
\* after the second request
C29_Witness ==
    /\ pc = "idle"
    /\ outcome # NULL
    /\ outcome.err = Error("GraphQL operation failed: Network error")
    /\ "op" \in DOMAIN args
    /\ args.op = "getTeams"
    /\ calls = <<GetTeams>>
    /\ requests = 2

\* the position of the first occurrence of step in steps, 0 when there is none
RECURSIVE FirstStep(_, _, _)
FirstStep(steps, step, i) ==
    IF i > Len(steps) THEN 0
    ELSE IF steps[i] = step THEN i
    ELSE FirstStep(steps, step, i + 1)

\* C30: whenever the handler of a tool reachable through getHandlerForTool has
\* made a request through the client, it has before that called
\* isAuthenticated() and needsTokenRefresh(), in this order, and
\* refreshAccessToken() if a refresh was needed; and a tool called while
\* isAuthenticated() is false is rejected without a request.
C30_AuthCheckedBeforeClient ==
    /\ [](LET steps == toolCall.steps
              used == FirstStep(steps, "execute", 1) IN
          used > 0 =>
              /\ used >= 3
              /\ steps[1] = "isAuthenticated"
              /\ steps[2] = "needsTokenRefresh")
    /\ [][\A tool \in ClientTools, valid \in BOOLEAN :
            (~isAuthenticated /\ CallTool(tool, valid)) =>
                /\ toolCall'.status = "rejected"
                /\ FirstStep(toolCall'.steps, "execute", 1) = 0]_vars

\* a step in which a suspended call of op ran to its end on an answer of the
\* token endpoint
Completes(op) ==
    /\ inflight'[op] < inflight[op]
    /\ last' = Done(op, "ok", "none")

\* C31: client handles are immutable snapshots. No LinearClient object is ever
\* changed once constructed, so a reference taken with getClient() keeps the
\* token its object was created with; a handleCallback or refreshAccessToken
\* that succeeds constructs one new object, bound to the access token of the
\* answer, and makes it the instance's client.
C31_ClientSnapshots ==
    /\ [][\A i \in 1..Len(heap) : Len(heap') >= i /\ heap'[i] = heap[i]]_vars
    /\ [][\A op \in {"handleCallback", "refreshAccessToken"} :
            Completes(op) =>
                /\ Len(heap') = Len(heap) + 1
                /\ heap'[Len(heap')] = linearClient'
                /\ linearClient'.token = tokenData'.accessToken]_vars
    /\ [][\A resp \in OkResponses :
            (RefreshFinishNew(resp) \/ HandleCallbackFinishNew(resp)) /\ last'.err = "none"
                => linearClient'.token = resp.access_token]_vars
    /\ [](held <= Len(heap))

\* a reference was taken, then a refresh succeeded with another access token:
\* the object referred to still has the old token
C31_Witness ==
    /\ held # 0
    /\ Len(heap) > held
    /\ last = Done("refreshAccessToken", "ok", "none")
    /\ heap[held].token = "a1"
    /\ heap[Len(heap)].token = "a2"
    /\ linearClient = heap[Len(heap)]

\* C32: when needsTokenRefresh() is true as a tool call begins, and the call
\* triggers a refresh and issues its remote operation, that refresh has
\* completed: the call leaves no refreshAccessToken of its own suspended while
\* its operation is in flight.
C32_RefreshCompletesBeforeOperation ==
    [][\A tool \in ClientTools, valid \in BOOLEAN :
        (/\ needsTokenRefresh
         /\ CallTool(tool, valid)
         /\ FirstStep(toolCall'.steps, "refreshAccessToken", 1) > 0
         /\ toolCall'.status = "awaiting")
            => inflight'["refreshAccessToken"] = inflight["refreshAccessToken"]]_vars

\* C33: when the refresh that the tool call being handled triggered fails, the
\* tool call fails and has issued no remote operation.
C33_RefreshFailureSurfaces ==
    [][\A resp \in Responses :
        (/\ inflight["refreshAccessToken"] = 1
         /\ FirstStep(toolCall.steps, "refreshAccessToken", 1) > 0
         /\ RefreshFinish(resp)
         /\ last'.err # "none")
            => /\ toolCall'.status = "rejected"
               /\ FirstStep(toolCall'.steps, "execute", 1) = 0]_vars

\* C34: a remote operation that a tool handler issues after a refresh has
\* succeeded and stored an access token goes through a client bound to the
\* access token now in tokenData.
C34_OperationsUseNewToken ==
    [][\A tool \in ClientTools, valid \in BOOLEAN :
        (/\ last = Done("refreshAccessToken", "ok", "none")
         /\ ~IsFalsy(tokenData.accessToken)
         /\ CallTool(tool, valid)
         /\ FirstStep(toolCall'.steps, "execute", 1) > 0)
            => graphqlClient.linearClient.token = tokenData.accessToken]_vars

\* C35: in every state the instance can reach, isAuthenticated() is true
\* exactly when getClient() returns a client instead of throwing.
C35_AuthenticatedIffClient ==
    isAuthenticated <=> getClient # NULL

\* a call has failed after it stored token data and before it had a client:
\* isAuthenticated() is false and getClient() throws
C35_Witness ==
    /\ last.err # "none"
    /\ tokenData # NULL
    /\ ~isAuthenticated
    /\ getClient = NULL

\* C36: an initialize call that throws for its configuration leaves config and
\* tokenData as they were before the call.
C36_FailedInitializeChangesNothing ==
    [][\A cfg \in Configs :
        (/\ last'.op = "initialize"
         /\ last'.err = "InvalidParams"
         /\ Initialize(cfg))
            => /\ config' = config
               /\ tokenData' = tokenData]_vars

\* C37: once initialize has been called on both, LinearAuth and the instance
\* of PatLinearAuth or OAuthLinearAuth that was given the same calls agree on
\* isAuthenticated(), on needsTokenRefresh(), on whether getClient() throws,
\* and on the token of the client it returns.
C37_FacadeEquivalent ==
    config # NULL =>
        /\ isAuthenticated = IsAuthenticatedOf(twin.cls, twin.state)
        /\ needsTokenRefresh = NeedsTokenRefreshOf(twin.cls, twin.state, now)
        /\ (getClient = NULL) = (GetClientOf(twin.cls, twin.state) = NULL)
        /\ getClient # NULL => getClient.token = GetClientOf(twin.cls, twin.state).token

\* C38: createProjectWithIssues keeps no state between invocations and does
\* not modify its arguments. From the call to the return the project input and
\* the issue inputs stay as the caller passed them; every invocation starts
\* with no project result and no outcome of an earlier one; the batch request
\* is built from copies of this call's issue inputs and the project this call
\* created, and the value returned from this call's own two responses.
C38_StatelessArgumentsKept ==
    /\ [][pc # "idle" => args' = args]_vars
    /\ [][(pc = "idle" /\ pc' = "awaitProject") =>
            /\ projectResult' = NULL
            /\ outcome' = NULL
            /\ calls' = <<CreateProject(args'.projectInput)>>]_vars
    /\ [](pc = "awaitIssues" =>
            /\ projectResult # NULL
            /\ calls = <<CreateProject(args.projectInput),
                         CreateBatchIssues([i \in 1..Len(args.issues) |->
                             WithProjectId(args.issues[i],
                                           projectResult.projectCreate.project.id)])>>)
    /\ [][(pc = "awaitIssues" /\ pc' = "idle" /\ outcome'.err = NoError) =>
            /\ outcome'.value.projectCreate = projectResult.projectCreate
            /\ \E resp \in IssueResponses :
                /\ resp.kind = "resolve"
                /\ resp.data # NULL
                /\ outcome'.value.issueBatchCreate = resp.data.issueBatchCreate]_vars

\* a second invocation has returned; the issue input it was passed has no
\* projectId although the batch request carried one
C38_Witness ==
    /\ pc = "idle"
    /\ requests = 4
    /\ Len(calls) = 2
    /\ outcome # NULL
    /\ outcome.err = NoError
    /\ Len(args.issues) = 1
    /\ "projectId" \notin DOMAIN args.issues[1]
    /\ calls[2].variables.input.issues[1].projectId = "project-2"

\* the bulk method a single-item method corresponds to, and the arguments of
\* the bulk method for the one-element list
BulkOf(op) ==
    CASE op = "createIssue" -> "createIssues"
      [] op = "updateIssue" -> "updateIssues"
      [] op = "deleteIssue" -> "deleteIssues"

AsList(op, a) ==
    CASE op = "createIssue" -> [issues |-> <<a.input>>]
      [] op = "updateIssue" -> [ids |-> <<a.id>>, input |-> a.input]
      [] op = "deleteIssue" -> [ids |-> <<a.id>>]

SingleOperations == {"createIssue", "updateIssue", "deleteIssue"}

====
